---- MODULE Spec2Model ----
(***************************************************************************)
(* A model of the parseval expression pipeline: the two tokenizers          *)
(* (src/src/parsers/comsol_parser.py and src/parse_spice.py), the          *)
(* infix -> prefix converter, the AST builder, the in-order renderer, the  *)
(* leaf substitution, the dialect drivers, and the ExprParser and PyxEval  *)
(* classes (src/src/expr_parser.py, src/src/pyxeval.py) that evaluate an   *)
(* expression.                                                             *)
(*                                                                         *)
(* A Python string is a sequence of one-character strings; a Python index  *)
(* i (0-based) reads At(s, i).                                              *)
(***************************************************************************)
EXTENDS Integers, Sequences, FiniteSets, TLC

VARIABLES
    pc,             \* where the caller stands in the pipeline
    dialect,        \* the module whose functions the caller uses: "comsol" or "spice"
    round,          \* 1 for the caller's expression, 2 once rendered text is parsed again
    expr,           \* the expression string handed to the parser
    tokens,         \* the caller's token list (result of tokenization)
    variable_list,  \* the global variable_list of parse_spice.py
    prefix,         \* the prefix token list (consumed by getAST)
    ast,            \* the AST under construction / transformation
    ast0,           \* the AST whose rendering is being parsed again
    rendered,       \* the token list returned by inorderAST
    comsol_expr,    \* the COMSOL text returned by spice_to_comsol
    spice_expr,     \* the SPICE text returned by generate_spice
    var_list,       \* the caller's var_list argument of spice_to_comsol
    err,            \* the exception raised, or "none"
    parsers,        \* the caller's ExprParser objects, one per dialect
    results,        \* what the calls of each method on each object returned
    celsius,        \* the temperature, in degrees Celsius, the caller evaluates at
    postfix_stack,  \* token_stack of infix_to_postfix
    postfix_output, \* output of infix_to_postfix
    postfix_i,      \* the index i infix_to_postfix has reached in token_list
    postfix_tokens  \* token_list of infix_to_postfix

vars == <<pc, dialect, round, expr, tokens, variable_list, prefix, ast, ast0,
          rendered, comsol_expr, spice_expr, var_list, err, parsers, results,
          celsius, postfix_stack, postfix_output, postfix_i,
          postfix_tokens>>

\* the variables of the dialect drivers
convVars == <<comsol_expr, spice_expr, var_list>>

\* the variables of the evaluation
evalVars == <<parsers, results, celsius>>

\* the variables of the loop of infix_to_postfix
loopVars == <<postfix_stack, postfix_output, postfix_i, postfix_tokens>>

-----------------------------------------------------------------------------
(* Bounds of the model.                                                     *)

\* longest input string, in characters, handed to a tokenizer
MaxLen == 5

\* longest well-formed expression, in characters, handed to the parser
MaxExprLen == 7

\* number of times a text goes through the parser: the caller's expression,
\* then the renderings parsed again
MaxRound == 2

\* the longest SPICE expression handed to the conversion, in lexemes
MaxLexemes == 5

\* the longest SPICE expression of a matched pair handed to the evaluators, in
\* lexemes
MaxEvalLexemes == 3

\* the number of times in a row a caller repeats one call
MaxCalls == 3

-----------------------------------------------------------------------------
(* Strings.                                                                 *)

At(s, i) == s[i + 1]

\* ord() of the characters the model uses (ASCII)
ord(c) ==
    CASE c = "\t" -> 9
      [] c = " " -> 32
      [] c = "(" -> 40
      [] c = ")" -> 41
      [] c = "*" -> 42
      [] c = "+" -> 43
      [] c = "-" -> 45
      [] c = "." -> 46
      [] c = "/" -> 47
      [] c = "^" -> 94
      [] OTHER -> 97

RECURSIVE StringsUpTo(_, _)
StringsUpTo(alphabet, n) ==
    IF n = 0 THEN {<<>>}
    ELSE LET shorter == StringsUpTo(alphabet, n - 1)
         IN  shorter \cup {Append(w, c) : w \in {v \in shorter : Len(v) = n - 1},
                                          c \in alphabet}

-----------------------------------------------------------------------------
(* Tokens: instances of the classes Variable, Operator and Paranthesis.     *)

Variable(s) == [cls |-> "Variable", var |-> s]
Operator(s) == [cls |-> "Operator", op |-> s]
Paranthesis(s) == [cls |-> "Paranthesis", par |-> s]

is_variable(token) == token.cls = "Variable"
is_operator(token) == token.cls = "Operator"
is_paranthesis(token) == token.cls = "Paranthesis"

\* __str__ of a token, as a sequence of characters
str(token) ==
    IF is_variable(token) THEN token.var
    ELSE IF is_operator(token) THEN <<token.op>>
    ELSE <<token.par>>

-----------------------------------------------------------------------------
(* tokenization of comsol_parser.py.  The loop state is (i, crt_token,      *)
(* tokens); an index past the end of s raises IndexError.                   *)

\* variant: the operand is appended as accumulated, without the wrap
AppendWrapped_Unwrapped(toks, crt_token) ==
    IF crt_token = <<>> THEN toks ELSE Append(toks, Variable(crt_token))

\* "if crt_token != '': if crt_token[0] == '-': wrap; tokens.append(...)"
AppendWrapped(toks, crt_token) ==
    IF crt_token = <<>> THEN toks
    ELSE IF crt_token[1] = "-"
         THEN Append(toks, Variable(<<"(">> \o crt_token \o <<")">>))
         ELSE Append(toks, Variable(crt_token))

\* "if crt_token != '': tokens.append(Variable(crt_token))"
AppendPlain(toks, crt_token) ==
    IF crt_token = <<>> THEN toks ELSE Append(toks, Variable(crt_token))

\* the loop state where the body goes on to the next test of the while
\* condition, and where it leaves the loop by an exception
ComsolNext(i, crt_token, toks) ==
    [i |-> i, crt_token |-> crt_token, tokens |-> toks, err |-> "none"]
ComsolRaise(toks, e) == [i |-> 0, crt_token |-> <<>>, tokens |-> toks, err |-> e]

\* one pass through the body of "while i < len(s)"
comsol_body(s, i0, crt0, toks) ==
    LET unary == (i0 = 0 /\ At(s, i0) = "-")
        crt_token == IF unary THEN Append(crt0, "-") ELSE crt0
        i == IF unary THEN i0 + 1 ELSE i0
    IN
    IF i >= Len(s) THEN ComsolRaise(toks, "IndexError")
    ELSE
      LET c == At(s, i) IN
      IF c \in {"*", "^", "+", "-", "/"} THEN
          ComsolNext(i + 1, <<>>, Append(AppendWrapped(toks, crt_token), Operator(c)))
      ELSE IF c = "(" THEN
          LET t1 == Append(AppendPlain(toks, crt_token), Paranthesis(c)) IN
          IF i + 1 >= Len(s) THEN ComsolRaise(t1, "IndexError")
          ELSE IF At(s, i + 1) = "-"
               THEN ComsolNext(i + 2, <<"-">>, t1)
               ELSE ComsolNext(i + 1, <<>>, t1)
      ELSE IF c = ")" THEN
          ComsolNext(i + 1, <<>>, Append(AppendWrapped(toks, crt_token), Paranthesis(c)))
      ELSE IF ord(c) <= 32 THEN
          ComsolNext(i + 1, crt_token, toks)
      ELSE
          LET crt1 == Append(crt_token, c) IN
          ComsolNext(i + 1, crt1,
                     IF i + 1 = Len(s) THEN Append(toks, Variable(crt1)) ELSE toks)

\* the test of "while i < len(s)" and one pass through the body if it holds
comsol_pass(s, st) ==
    IF st.err # "none" \/ st.i >= Len(s) THEN st
    ELSE comsol_body(s, st.i, st.crt_token, st.tokens)

\* "while i < len(s): ..." from the loop state st on, four passes at a time
\* (the evaluation nests one level for them, not four)
RECURSIVE comsol_loop(_, _)
comsol_loop(s, st) ==
    IF st.err # "none" \/ st.i >= Len(s) THEN [tokens |-> st.tokens, err |-> st.err]
    ELSE comsol_loop(s, comsol_pass(s, comsol_pass(s, comsol_pass(s, comsol_pass(s, st)))))

comsol_tokenization(s) == comsol_loop(s, ComsolNext(0, <<>>, <<>>))

-----------------------------------------------------------------------------
(* tokenization of parse_spice.py.  The loop state also carries the global  *)
(* variable_list.                                                           *)

\* "variable_list.append(crt_token)" under "if crt_token != ''"
Noted(vl, crt_token) == IF crt_token = <<>> THEN vl ELSE Append(vl, crt_token)

\* the loop state where the body goes on to the next test of the while
\* condition, and where it leaves the loop by an exception
SpiceNext(i, crt_token, toks, vl) ==
    [i |-> i, crt_token |-> crt_token, tokens |-> toks, variable_list |-> vl,
     err |-> "none"]
SpiceRaise(toks, vl, e) ==
    [i |-> 0, crt_token |-> <<>>, tokens |-> toks, variable_list |-> vl, err |-> e]

\* one pass through the body of "while i < len(s)"
spice_body(s, i, crt_token, toks, vl) ==
    LET c == At(s, i) IN
    IF i = 0 /\ c = "-" THEN
        \* i += 1 here and i += 1 again at the end of the loop body
        SpiceNext(i + 2, Append(crt_token, "-"), toks, vl)
    ELSE IF c = "*" THEN
        LET t1 == AppendWrapped(toks, crt_token)
            v1 == Noted(vl, crt_token)
        IN  IF i + 1 < Len(s) /\ At(s, i + 1) = "*"
            THEN SpiceNext(i + 2, <<>>, Append(t1, Operator("^")), v1)
            ELSE SpiceNext(i + 1, <<>>, Append(t1, Operator(c)), v1)
    ELSE IF c \in {"+", "-", "/"} THEN
        SpiceNext(i + 1, <<>>, Append(AppendWrapped(toks, crt_token), Operator(c)),
                  Noted(vl, crt_token))
    ELSE IF c = "(" THEN
        LET t1 == Append(AppendPlain(toks, crt_token), Paranthesis(c))
            v1 == Noted(vl, crt_token)
        IN  IF i + 1 >= Len(s) THEN SpiceRaise(t1, v1, "IndexError")
            ELSE IF At(s, i + 1) = "-"
                 THEN SpiceNext(i + 2, <<"-">>, t1, v1)
                 ELSE SpiceNext(i + 1, <<>>, t1, v1)
    ELSE IF c = ")" THEN
        SpiceNext(i + 1, <<>>, Append(AppendWrapped(toks, crt_token), Paranthesis(c)),
                  Noted(vl, crt_token))
    ELSE IF ord(c) <= 32 THEN
        SpiceNext(i + 1, crt_token, toks, vl)
    ELSE
        LET crt1 == Append(crt_token, c) IN
        SpiceNext(i + 1, crt1,
                  IF i + 1 = Len(s) THEN Append(toks, Variable(crt1)) ELSE toks, vl)

\* the test of "while i < len(s)" and one pass through the body if it holds
spice_pass(s, st) ==
    IF st.err # "none" \/ st.i >= Len(s) THEN st
    ELSE spice_body(s, st.i, st.crt_token, st.tokens, st.variable_list)

\* "while i < len(s): ..." from the loop state st on, four passes at a time
\* (the evaluation nests one level for them, not four)
RECURSIVE spice_loop(_, _)
spice_loop(s, st) ==
    IF st.err # "none" \/ st.i >= Len(s)
    THEN [tokens |-> st.tokens, variable_list |-> st.variable_list, err |-> st.err]
    ELSE spice_loop(s, spice_pass(s, spice_pass(s, spice_pass(s, spice_pass(s, st)))))

spice_tokenization(s) == spice_loop(s, SpiceNext(0, <<>>, <<>>, <<>>))

-----------------------------------------------------------------------------
(* precedence, infix_to_postfix and infix_to_prefix (the same text in       *)
(* comsol_parser.py and parse_spice.py).                                    *)

precedence(operator) ==
    IF is_operator(operator)
    THEN IF operator.op = "-" \/ operator.op = "+" THEN 1
         ELSE IF operator.op = "*" \/ operator.op = "/" THEN 2
         ELSE IF operator.op = "^" THEN 3
         ELSE 0
    ELSE 0

Top(stack) == stack[Len(stack)]
Pop(stack) == SubSeq(stack, 1, Len(stack) - 1)
Reverse(seq) == [k \in 1..Len(seq) |-> seq[Len(seq) + 1 - k]]

\* the loop run on ')': pop to the output until '(' is on top; token_stack[-1]
\* of an empty stack raises IndexError
RECURSIVE PopToOpen(_, _)
PopToOpen(token_stack, output) ==
    IF token_stack = <<>>
    THEN [token_stack |-> token_stack, output |-> output, err |-> "IndexError"]
    ELSE IF \/ (is_paranthesis(Top(token_stack)) /\ Top(token_stack).par # "(")
            \/ is_operator(Top(token_stack))
         THEN PopToOpen(Pop(token_stack), Append(output, Top(token_stack)))
         ELSE [token_stack |-> token_stack, output |-> output, err |-> "none"]

\* variant: every operator pops its equals, as a left-to-right postfix pass would
PopsTop_PopsEquals(incoming, top) ==
    precedence(incoming) <= precedence(top)

\* variant: no operator pops its equals
PopsTop_Strict(incoming, top) ==
    precedence(incoming) < precedence(top)

\* the comparison of the incoming operator with the top of the stack:
\* "<=" when the incoming operator is '^', "<" otherwise
PopsTop(incoming, top) ==
    IF is_operator(incoming) /\ incoming.op = "^"
    THEN precedence(incoming) <= precedence(top)
    ELSE precedence(incoming) < precedence(top)

\* the loop run on an operator
RECURSIVE PopWhile(_, _, _)
PopWhile(token_stack, output, incoming) ==
    IF token_stack = <<>>
    THEN [token_stack |-> token_stack, output |-> output, err |-> "IndexError"]
    ELSE IF PopsTop(incoming, Top(token_stack))
         THEN PopWhile(Pop(token_stack), Append(output, Top(token_stack)), incoming)
         ELSE [token_stack |-> token_stack, output |-> output, err |-> "none"]

RECURSIVE postfix_loop(_, _, _, _)
postfix_loop(token_list, i, token_stack, output) ==
    IF i >= Len(token_list)
    THEN \* "while len(token_stack) != 0": the rest of the stack goes to the output
         [output |-> output \o Reverse(token_stack), err |-> "none"]
    ELSE
      LET t == At(token_list, i) IN
      IF is_variable(t) THEN
          postfix_loop(token_list, i + 1, token_stack, Append(output, t))
      ELSE IF is_paranthesis(t) THEN
          IF t.par = "(" THEN
              postfix_loop(token_list, i + 1, Append(token_stack, t), output)
          ELSE
              LET r == PopToOpen(token_stack, output) IN
              IF r.err # "none" THEN [output |-> r.output, err |-> r.err]
              ELSE postfix_loop(token_list, i + 1, Pop(r.token_stack), r.output)
      ELSE
          IF token_stack = <<>> THEN [output |-> output, err |-> "IndexError"]
          ELSE IF is_operator(Top(token_stack)) \/ is_paranthesis(Top(token_stack))
          THEN LET r == PopWhile(token_stack, output, t) IN
               IF r.err # "none" THEN [output |-> r.output, err |-> r.err]
               ELSE postfix_loop(token_list, i + 1, Append(r.token_stack, t), r.output)
          ELSE postfix_loop(token_list, i + 1, token_stack, output)

infix_to_postfix(token_list) ==
    postfix_loop(<<Paranthesis("(")>> \o token_list \o <<Paranthesis(")")>>,
                 0, <<>>, <<>>)

\* "token_list[i].par = ')' / '('": the parenthesis objects are flipped in place
Flip(token) ==
    IF is_paranthesis(token)
    THEN IF token.par = "(" THEN Paranthesis(")") ELSE Paranthesis("(")
    ELSE token

\* The result carries the prefix list and token_list, the caller's list as the
\* call leaves it: the reversed list is a copy, but its tokens are the caller's
\* objects.
infix_to_prefix(token_list) ==
    LET flipped == [k \in 1..Len(token_list) |-> Flip(token_list[k])]
        r == infix_to_postfix(Reverse(flipped))
    IN  [prefix |-> Reverse(r.output), err |-> r.err, token_list |-> flipped]

-----------------------------------------------------------------------------
(* class AST.  A node is a record: token alone for a leaf, token/base/power *)
(* for '^', token/left/right for another operator.  None is Python's None.  *)

None == [none |-> TRUE]

\* AST.__init__ on one token
AST(token) ==
    IF is_operator(token)
    THEN IF token.op = "^"
         THEN [token |-> token, base |-> None, power |-> None]
         ELSE [token |-> token, left |-> None, right |-> None]
    ELSE [token |-> token]

\* variant: the second subtree built becomes the left child
Attach_Swapped(node, first, second) ==
    IF node.token.op = "^"
    THEN [node EXCEPT !.base = first, !.power = second]
    ELSE [node EXCEPT !.left = second, !.right = first]

\* variant: the first subtree built becomes the exponent
Attach_ExponentFirst(node, first, second) ==
    IF node.token.op = "^"
    THEN [node EXCEPT !.base = second, !.power = first]
    ELSE [node EXCEPT !.left = first, !.right = second]

\* the children of an operator node, in the order getAST builds them:
\* base then power for '^', left then right otherwise
Attach(node, first, second) ==
    IF node.token.op = "^"
    THEN [node EXCEPT !.base = first, !.power = second]
    ELSE [node EXCEPT !.left = first, !.right = second]

\* AST.getAST: the node built and the rest of token_list (popped from the front)
RECURSIVE getAST(_)
getAST(token_list) ==
    IF Len(token_list) = 0 THEN [node |-> None, rest |-> token_list]
    ELSE
      LET token == Head(token_list)
          node == AST(token)
      IN
      IF is_operator(token) THEN
          LET first == getAST(Tail(token_list))
              second == getAST(first.rest)
          IN  [node |-> Attach(node, first.node, second.node), rest |-> second.rest]
      ELSE [node |-> node, rest |-> Tail(token_list)]

\* the parentheses inorderAST puts around the rendering of a child
Bracketed(list) == <<Paranthesis("(")>> \o list \o <<Paranthesis(")")>>

\* "verify if base [power] is variable or expression to add paranthesis"
PowerChild(child, list) ==
    IF is_operator(child.token) THEN Bracketed(list) ELSE list

\* variant: a child of equal precedence is parenthesized too
BinaryChild_Equal(self, child, list) ==
    IF is_operator(child.token)
    THEN IF precedence(self.token) >= precedence(child.token)
         THEN Bracketed(list)
         ELSE list
    ELSE list

\* the same decision for the left and the right field of another operator
BinaryChild(self, child, list) ==
    IF is_operator(child.token)
    THEN IF precedence(self.token) > precedence(child.token)
         THEN Bracketed(list)
         ELSE list
    ELSE list

\* AST.inorderAST.  A call on None raises AttributeError; a node whose token is
\* neither Variable nor Operator returns None, which raises TypeError when the
\* parent concatenates it.
RECURSIVE inorderAST(_)
inorderAST(self) ==
    IF self = None THEN [list |-> <<>>, err |-> "AttributeError"]
    ELSE IF is_variable(self.token) THEN [list |-> <<self.token>>, err |-> "none"]
    ELSE IF is_operator(self.token) THEN
        IF self.token.op = "^" THEN
            LET base == inorderAST(self.base) IN
            IF base.err \notin {"none", "None"} THEN [list |-> <<>>, err |-> base.err]
            ELSE
            LET power == inorderAST(self.power) IN
            IF power.err \notin {"none", "None"} THEN [list |-> <<>>, err |-> power.err]
            ELSE IF base.err = "None" \/ power.err = "None"
            THEN [list |-> <<>>, err |-> "TypeError"]
            ELSE [list |-> PowerChild(self.base, base.list)
                           \o <<self.token>>
                           \o PowerChild(self.power, power.list),
                  err |-> "none"]
        ELSE
            LET left == inorderAST(self.left) IN
            IF left.err \notin {"none", "None"} THEN [list |-> <<>>, err |-> left.err]
            ELSE
            LET right == inorderAST(self.right) IN
            IF right.err \notin {"none", "None"} THEN [list |-> <<>>, err |-> right.err]
            ELSE IF left.err = "None" \/ right.err = "None"
            THEN [list |-> <<>>, err |-> "TypeError"]
            ELSE [list |-> BinaryChild(self, self.left, left.list)
                           \o <<self.token>>
                           \o BinaryChild(self, self.right, right.list),
                  err |-> "none"]
    ELSE [list |-> <<>>, err |-> "None"]

\* ''.join(str(t) for t in list)
RECURSIVE Join(_)
Join(list) == IF list = <<>> THEN <<>> ELSE str(Head(list)) \o Join(Tail(list))

-----------------------------------------------------------------------------
(* The caller's objects before any constructor has run: no ExprParser, no   *)
(* value returned yet.                                                      *)

NoParsers == [spice |-> None, comsol |-> None]
NoResults == [spice |-> [aeval |-> None, keval |-> None],
              comsol |-> [aeval |-> None, keval |-> None]]

-----------------------------------------------------------------------------
(* The tokenizer specification: a caller hands a string to the tokenizer    *)
(* of one of the two modules.                                               *)

TokChars == {"-", "+", "*", "^", "(", ")", "x", " "}

InitTok ==
    /\ pc = "start"
    /\ dialect \in {"comsol", "spice"}
    /\ expr \in StringsUpTo(TokChars, MaxLen)
    /\ round = 1
    /\ tokens = <<>>
    /\ variable_list = <<>>
    /\ prefix = <<>>
    /\ ast = None
    /\ ast0 = None
    /\ rendered = <<>>
    /\ comsol_expr = <<>>
    /\ spice_expr = <<>>
    /\ var_list = {}
    /\ err = "none"
    /\ parsers = NoParsers
    /\ results = NoResults
    /\ celsius = 0
    /\ postfix_stack = <<>>
    /\ postfix_output = <<>>
    /\ postfix_i = 0
    /\ postfix_tokens = <<>>

TokenizeComsol ==
    /\ pc = "start"
    /\ dialect = "comsol"
    /\ LET r == comsol_tokenization(expr) IN
         /\ tokens' = (IF r.err = "none" THEN r.tokens ELSE tokens)
         /\ err' = r.err
         /\ pc' = (IF r.err = "none" THEN "tokenized" ELSE "failed")
    /\ UNCHANGED <<loopVars, dialect, round, expr, variable_list, prefix, ast, ast0, rendered, convVars, evalVars>>

TokenizeSpice ==
    /\ pc = "start"
    /\ dialect = "spice"
    /\ LET r == spice_tokenization(expr) IN
         /\ tokens' = (IF r.err = "none" THEN r.tokens ELSE tokens)
         /\ variable_list' = r.variable_list
         /\ err' = r.err
         /\ pc' = (IF r.err = "none" THEN "tokenized" ELSE "failed")
    /\ UNCHANGED <<loopVars, dialect, round, expr, prefix, ast, ast0, rendered, convVars, evalVars>>

NextTok == TokenizeComsol \/ TokenizeSpice

SpecTok == InitTok /\ [][NextTok]_vars

-----------------------------------------------------------------------------
(* The parser specification: a caller of comsol_parser.py takes a           *)
(* well-formed expression through tokenization, infix_to_prefix, getAST and *)
(* inorderAST, and then parses the rendered text again.                     *)

Operands == {"a", "b"}
BinaryOperators == {"+", "-", "*", "/", "^"}

\* the well-formed expressions of exactly n lexemes over the given operands
\* and operators (each a string):
\*   E ::= operand | ( E ) | E operator E
RECURSIVE WellFormedOver(_, _, _)
WellFormedOver(operands, operators, n) ==
    IF n < 1 THEN {}
    ELSE IF n = 1 THEN operands
    ELSE {<<"(">> \o e \o <<")">> : e \in WellFormedOver(operands, operators, n - 2)}
         \cup UNION {{l \o o \o r : l \in WellFormedOver(operands, operators, k),
                                    r \in WellFormedOver(operands, operators, n - 1 - k),
                                    o \in operators} : k \in 1..(n - 2)}

\* with one-character operands and operators: n characters
WellFormed(n) ==
    WellFormedOver({<<o>> : o \in Operands}, {<<o>> : o \in BinaryOperators}, n)

InitParse ==
    /\ pc = "start"
    /\ dialect = "comsol"
    /\ round = 1
    /\ expr \in UNION {WellFormed(n) : n \in 1..MaxExprLen}
    /\ tokens = <<>>
    /\ variable_list = <<>>
    /\ prefix = <<>>
    /\ ast = None
    /\ ast0 = None
    /\ rendered = <<>>
    /\ comsol_expr = <<>>
    /\ spice_expr = <<>>
    /\ var_list = {}
    /\ err = "none"
    /\ parsers = NoParsers
    /\ results = NoResults
    /\ celsius = 0
    /\ postfix_stack = <<>>
    /\ postfix_output = <<>>
    /\ postfix_i = 0
    /\ postfix_tokens = <<>>

\* prefix = infix_to_prefix(tokens)
InfixToPrefix ==
    /\ pc = "tokenized"
    /\ LET r == infix_to_prefix(tokens) IN
         /\ tokens' = r.token_list
         /\ prefix' = (IF r.err = "none" THEN r.prefix ELSE prefix)
         /\ err' = r.err
         /\ pc' = (IF r.err = "none" THEN "prefixed" ELSE "failed")
    /\ UNCHANGED <<loopVars, dialect, round, expr, variable_list, ast, ast0, rendered,
                   convVars, evalVars>>

\* ast = AST.getAST(prefix)
GetAST ==
    /\ pc = "prefixed"
    /\ LET r == getAST(prefix) IN
         /\ ast' = r.node
         /\ prefix' = r.rest
    /\ pc' = "built"
    /\ UNCHANGED <<loopVars, dialect, round, expr, tokens, variable_list, ast0, rendered,
                   convVars, err, evalVars>>

\* rendered = ast.inorderAST()
InorderAST ==
    /\ pc = "built"
    /\ LET r == inorderAST(ast) IN
         /\ rendered' = (IF r.err = "none" THEN r.list ELSE rendered)
         /\ err' = r.err
         /\ pc' = (IF r.err = "none" THEN "rendered" ELSE "failed")
    /\ UNCHANGED <<loopVars, dialect, round, expr, tokens, variable_list, prefix, ast, ast0,
                   convVars, evalVars>>

\* the caller parses the text of the rendering as a new expression
Reparse ==
    /\ pc = "rendered"
    /\ round < MaxRound
    /\ round' = round + 1
    /\ expr' = Join(rendered)
    /\ ast0' = ast
    /\ pc' = "start"
    /\ UNCHANGED <<loopVars, dialect, tokens, variable_list, prefix, ast, rendered,
                   convVars, err, evalVars>>

NextParse == TokenizeComsol \/ InfixToPrefix \/ GetAST \/ InorderAST \/ Reparse

SpecParse == InitParse /\ [][NextParse]_vars

-----------------------------------------------------------------------------
(* The literal specification: the tokenizer of either module is handed a    *)
(* well-formed expression of decimal literals and names, as the expressions *)
(* of the two dialects are written (1.65e-6*T, 0.133e-3*temp).              *)

\* '1.65e-6', '2.5' and 'x'
LitOperands ==
    {<<"1", ".", "6", "5", "e", "-", "6">>, <<"2", ".", "5">>, <<"x">>}
LitOperators == {<<"+">>, <<"-">>, <<"*">>, <<"/">>}

InitLit ==
    /\ pc = "start"
    /\ dialect \in {"comsol", "spice"}
    /\ expr \in UNION {WellFormedOver(LitOperands, LitOperators, n) : n \in 1..MaxLexemes}
    /\ round = 1
    /\ tokens = <<>>
    /\ variable_list = <<>>
    /\ prefix = <<>>
    /\ ast = None
    /\ ast0 = None
    /\ rendered = <<>>
    /\ comsol_expr = <<>>
    /\ spice_expr = <<>>
    /\ var_list = {}
    /\ err = "none"
    /\ parsers = NoParsers
    /\ results = NoResults
    /\ celsius = 0
    /\ postfix_stack = <<>>
    /\ postfix_output = <<>>
    /\ postfix_i = 0
    /\ postfix_tokens = <<>>

SpecLit == InitLit /\ [][NextTok]_vars

-----------------------------------------------------------------------------
(* The malformed-input specification: a caller of comsol_parser.py hands    *)
(* any string, well-formed or not, to tokenization and takes the tokens     *)
(* either through infix_to_prefix and AST.getAST or to the constructor      *)
(* AST(tokens).                                                             *)

AnyChars == {"a", "+", "(", ")"}

InitAny ==
    /\ pc = "start"
    /\ dialect = "comsol"
    /\ round = 1
    /\ expr \in StringsUpTo(AnyChars, MaxLen)
    /\ tokens = <<>>
    /\ variable_list = <<>>
    /\ prefix = <<>>
    /\ ast = None
    /\ ast0 = None
    /\ rendered = <<>>
    /\ comsol_expr = <<>>
    /\ spice_expr = <<>>
    /\ var_list = {}
    /\ err = "none"
    /\ parsers = NoParsers
    /\ results = NoResults
    /\ celsius = 0
    /\ postfix_stack = <<>>
    /\ postfix_output = <<>>
    /\ postfix_i = 0
    /\ postfix_tokens = <<>>

\* AST.__init__ on a list: infix_to_prefix on a copy of the list (whose tokens
\* are the caller's objects), getAST, and "self.__dict__ = ast.__dict__",
\* which raises AttributeError when getAST returned None
AST_of_list(token_list) ==
    LET p == infix_to_prefix(token_list)
        node == IF p.err = "none" THEN getAST(p.prefix).node ELSE None
    IN  [ast |-> node,
         token_list |-> p.token_list,
         err |-> IF p.err # "none" THEN p.err
                 ELSE IF node = None THEN "AttributeError"
                 ELSE "none"]

\* ast = AST(tokens)
NewAST ==
    /\ pc = "tokenized"
    /\ LET r == AST_of_list(tokens) IN
         /\ tokens' = r.token_list
         /\ ast' = (IF r.err = "none" THEN r.ast ELSE ast)
         /\ err' = r.err
         /\ pc' = (IF r.err = "none" THEN "constructed" ELSE "failed")
    /\ UNCHANGED <<loopVars, dialect, round, expr, variable_list, prefix, ast0, rendered,
                   convVars, evalVars>>

NextAny == TokenizeComsol \/ InfixToPrefix \/ GetAST \/ NewAST

SpecAny == InitAny /\ [][NextAny]_vars

-----------------------------------------------------------------------------
(* Regular expressions (module re).  A pattern is a sequence of elements:   *)
(* one character of a set, any character but a newline, a starred set and   *)
(* an optional character.  In the three patterns of the program no starred  *)
(* or optional element can take a character the next element could take, so *)
(* the greedy choice is the only one that can match and backtracking never  *)
(* finds another match.                                                     *)

Lit(c) == [kind |-> "lit", chars |-> {c}]
Dot == [kind |-> "dot", chars |-> {}]
Star(cs) == [kind |-> "star", chars |-> cs]
Opt(c) == [kind |-> "opt", chars |-> {c}]
Lits(text) == [k \in 1..Len(text) |-> Lit(text[k])]

\* the characters \s matches
Whitespace == {" ", "\t", "\n", "\r"}

\* the matcher stands before pattern[j] at position i of s; i = -1 once an
\* element failed to match
MatchAt(j, i) == [j |-> j, i |-> i]
NoMatch == [j |-> 0, i |-> -1]

\* pattern[j] tried at position i of s: a star takes one more character or is
\* left behind, an optional character is taken if it is there
re_match_step(pattern, j, s, i) ==
    LET e == pattern[j]
        takes == i < Len(s) /\ (IF e.kind = "dot" THEN At(s, i) # "\n"
                                                  ELSE At(s, i) \in e.chars)
    IN  CASE e.kind \in {"lit", "dot"} ->
               IF takes THEN MatchAt(j + 1, i + 1) ELSE NoMatch
          [] e.kind = "star" ->
               IF takes THEN MatchAt(j, i + 1) ELSE MatchAt(j + 1, i)
          [] e.kind = "opt" ->
               IF takes THEN MatchAt(j + 1, i + 1) ELSE MatchAt(j + 1, i)

\* the next pattern element tried, unless the match has failed or is complete
re_match_pass(pattern, s, m) ==
    IF m.i < 0 \/ m.j > Len(pattern) THEN m
    ELSE re_match_step(pattern, m.j, s, m.i)

\* the pattern elements are tried four at a time (the evaluation nests one
\* level for them, not four)
RECURSIVE re_match_loop(_, _, _)
re_match_loop(pattern, s, m) ==
    IF m.i < 0 \/ m.j > Len(pattern) THEN m.i
    ELSE re_match_loop(pattern, s,
             re_match_pass(pattern, s, re_match_pass(pattern, s,
                 re_match_pass(pattern, s, re_match_pass(pattern, s, m)))))

\* the position after the match of pattern[j..] at position i of s, or -1
re_match(pattern, j, s, i) == re_match_loop(pattern, s, MatchAt(j, i))

\* the scan of pattern.sub(repl, s) at position i, with the text written so
\* far: a match is replaced and skipped, another character is copied
re_sub_step(pattern, repl, s, i, out) ==
    LET end == re_match(pattern, 1, s, i) IN
    IF end > i THEN [i |-> end, out |-> out \o repl]
               ELSE [i |-> i + 1, out |-> Append(out, At(s, i))]

\* one more step of the scan, unless it has reached the end of s
re_sub_pass(pattern, repl, s, scan) ==
    IF scan.i >= Len(s) THEN scan
    ELSE re_sub_step(pattern, repl, s, scan.i, scan.out)

\* pattern.sub(repl, s) from the scan state on: the leftmost matches, not
\* overlapping (no pattern of the program matches the empty string).  The
\* scan takes four steps at a time (the evaluation nests one level for them,
\* not four).
RECURSIVE re_sub_from(_, _, _, _)
re_sub_from(pattern, repl, s, scan) ==
    IF scan.i >= Len(s) THEN scan.out
    ELSE re_sub_from(pattern, repl, s,
             re_sub_pass(pattern, repl, s, re_sub_pass(pattern, repl, s,
                 re_sub_pass(pattern, repl, s, re_sub_pass(pattern, repl, s, scan)))))

re_sub(pattern, repl, s) == re_sub_from(pattern, repl, s, [i |-> 0, out |-> <<>>])

\* r' *\(? *temp *\+ *273.15 *\)? *'
SPICE_ABS_TEMP_PAT ==
    <<Star({" "}), Opt("("), Star({" "})>> \o Lits(<<"t", "e", "m", "p">>)
    \o <<Star({" "}), Lit("+"), Star({" "})>> \o Lits(<<"2", "7", "3">>)
    \o <<Dot>> \o Lits(<<"1", "5">>) \o <<Star({" "}), Opt(")"), Star({" "})>>

\* r'\(\s*T\s*\/\s*1\s*\[\s*K\s*\]\s*\)'
COMSOL_ABS_TEMP_PAT ==
    <<Lit("("), Star(Whitespace), Lit("T"), Star(Whitespace), Lit("/"),
      Star(Whitespace), Lit("1"), Star(Whitespace), Lit("["), Star(Whitespace),
      Lit("K"), Star(Whitespace), Lit("]"), Star(Whitespace), Lit(")")>>

\* r'\(\(T-0\[degC\]\)/1\[K\]\)'
COMSOL_TEMP_PAT ==
    Lits(<<"(", "(", "T", "-", "0", "[", "d", "e", "g", "C", "]", ")", "/", "1",
           "[", "K", "]", ")">>)

\* r'\^'
CARET_PAT == <<Lit("^")>>

-----------------------------------------------------------------------------
(* The temperature operands of the two dialects.                            *)

temp == <<"t", "e", "m", "p">>
tempa == <<"t", "e", "m", "p", "a">>
T == <<"T">>
T_ABS == <<"T", "_", "A", "B", "S">>
\* '(T/1[K])'
COMSOL_KELVIN == <<"(", "T", "/", "1", "[", "K", "]", ")">>
\* '((T-0[degC])/1[K])'
COMSOL_CELSIUS ==
    <<"(", "(", "T", "-", "0", "[", "d", "e", "g", "C", "]", ")", "/", "1", "[",
      "K", "]", ")">>
\* '(temp+273.15)'
SPICE_KELVIN ==
    <<"(", "t", "e", "m", "p", "+", "2", "7", "3", ".", "1", "5", ")">>

\* variant: only the node the method is called on is looked at
replace_token_Shallow(self, match, replace) ==
    IF self = None THEN [ast |-> self, err |-> "AttributeError"]
    ELSE IF is_variable(self.token) /\ self.token.var = match
    THEN [ast |-> [self EXCEPT !.token = Variable(replace)], err |-> "none"]
    ELSE [ast |-> self, err |-> "none"]

\* AST.replace_token: the tree after the call and the exception raised.  The
\* fields are visited base then power, right then left; a field that is None
\* raises AttributeError and leaves the replacements done before it.
RECURSIVE replace_token(_, _, _)
replace_token(self, match, replace) ==
    IF self = None THEN [ast |-> self, err |-> "AttributeError"]
    ELSE IF is_variable(self.token) THEN
        [ast |-> IF self.token.var = match
                  THEN [self EXCEPT !.token = Variable(replace)]
                  ELSE self,
         err |-> "none"]
    ELSE IF is_operator(self.token) THEN
        IF self.token.op = "^" THEN
            LET b == replace_token(self.base, match, replace) IN
            IF b.err # "none"
            THEN [ast |-> [self EXCEPT !.base = b.ast], err |-> b.err]
            ELSE LET p == replace_token(self.power, match, replace) IN
                 [ast |-> [self EXCEPT !.base = b.ast, !.power = p.ast],
                  err |-> p.err]
        ELSE
            LET r == replace_token(self.right, match, replace) IN
            IF r.err # "none"
            THEN [ast |-> [self EXCEPT !.right = r.ast], err |-> r.err]
            ELSE LET l == replace_token(self.left, match, replace) IN
                 [ast |-> [self EXCEPT !.right = r.ast, !.left = l.ast],
                  err |-> l.err]
    ELSE [ast |-> self, err |-> "none"]

-----------------------------------------------------------------------------
(* The dialect drivers: spice_to_comsol of parse_spice.py, parse_comsol and *)
(* generate_spice of comsol_parser.py.                                      *)

Digits == {"0", "1", "2", "3", "4", "5", "6", "7", "8", "9"}

RECURSIVE SkipDigits(_, _)
SkipDigits(s, i) ==
    IF i < Len(s) /\ At(s, i) \in Digits THEN SkipDigits(s, i + 1) ELSE i

\* is_number: float(s) succeeds.  The decimal literals float accepts: a sign,
\* digits with at most one '.', an exponent.  (The tokenizer leaves no
\* whitespace in an operand; '_' grouping and the words inf and nan are not
\* among the operands considered.)
is_number(s) ==
    LET a == IF Len(s) > 0 /\ At(s, 0) \in {"+", "-"} THEN 1 ELSE 0
        b == SkipDigits(s, a)
        c == IF b < Len(s) /\ At(s, b) = "." THEN SkipDigits(s, b + 1) ELSE b
        digits == (b - a) + (IF c > b THEN c - b - 1 ELSE 0)
        d == IF c < Len(s) /\ At(s, c) \in {"e", "E"}
             THEN LET x == IF c + 1 < Len(s) /\ At(s, c + 1) \in {"+", "-"}
                           THEN c + 2 ELSE c + 1
                      y == SkipDigits(s, x)
                  IN  IF y > x THEN y ELSE -1
             ELSE c
    IN  digits > 0 /\ d = Len(s)

\* "TypeError" for ''.join over the None inorderAST returned
JoinError(e) == IF e = "None" THEN "TypeError" ELSE e

\* the steps the drivers share.  Each takes the outcome of the step before it
\* (a record with the field err) and passes an exception on.

\* prefix = infix_to_prefix(tokens); ast = AST.getAST(prefix)
TreeOfPrefix(p) ==
    IF p.err # "none" THEN [ast |-> None, err |-> p.err]
    ELSE [ast |-> getAST(p.prefix).node, err |-> "none"]

TreeOf(t) ==
    IF t.err # "none" THEN [ast |-> None, err |-> t.err]
    ELSE TreeOfPrefix(infix_to_prefix(t.tokens))

\* ast.replace_token(match, replace)
Replaced(r, match, replace) ==
    IF r.err # "none" THEN r ELSE replace_token(r.ast, match, replace)

\* ''.join(str(t) for t in ast.inorderAST())
JoinedText(a, l) ==
    [text |-> IF l.err = "none" THEN Join(l.list) ELSE <<>>,
     list |-> IF l.err = "none" THEN l.list ELSE <<>>,
     ast |-> a,
     err |-> JoinError(l.err)]

RenderedText(r) ==
    IF r.err # "none" THEN [text |-> <<>>, list |-> <<>>, ast |-> r.ast, err |-> r.err]
    ELSE JoinedText(r.ast, inorderAST(r.ast))

\* "var_list[:] = [v for v in var_list if not is_number(v)]" on
\* list(set(variable_list)): a list whose order is not determined, kept as a set
NamesOf(vl) == {vl[k] : k \in {j \in 1..Len(vl) : ~is_number(vl[j])}}

spice_to_comsol_result(t, r, caller_var_list) ==
    [comsolString |-> r.text,
     var_list |-> IF r.err = "none" THEN NamesOf(t.variable_list) ELSE caller_var_list,
     variable_list |-> t.variable_list,
     err |-> r.err]

\* variant: the leaf temp is written as the absolute temperature
spice_to_comsol_tokens_Kelvin(t, caller_var_list) ==
    spice_to_comsol_result(
        t,
        RenderedText(Replaced(Replaced(TreeOf(t), tempa, COMSOL_KELVIN),
                              temp, COMSOL_KELVIN)),
        caller_var_list)

spice_to_comsol_tokens(t, caller_var_list) ==
    spice_to_comsol_result(
        t,
        RenderedText(Replaced(Replaced(TreeOf(t), tempa, COMSOL_KELVIN),
                              temp, COMSOL_CELSIUS)),
        caller_var_list)

\* spice_to_comsol(s, var_list): the string returned, var_list after the call,
\* the global variable_list and the exception raised
spice_to_comsol(s, caller_var_list) ==
    spice_to_comsol_tokens(spice_tokenization(re_sub(SPICE_ABS_TEMP_PAT, tempa, s)),
                           caller_var_list)

\* AST(list_of_tokens) copies the attributes of the tree getAST built, which
\* fails on None; print(ast) then renders it
Printed(a, l) ==
    [ast |-> IF l.err = "none" THEN a ELSE None, err |-> JoinError(l.err)]

Constructed(r) ==
    IF r.err # "none" THEN r
    ELSE IF r.ast = None THEN [ast |-> None, err |-> "AttributeError"]
    ELSE Printed(r.ast, inorderAST(r.ast))

\* parse_comsol(expr): the AST returned and the exception raised
parse_comsol(s) ==
    Constructed(TreeOf(comsol_tokenization(
        re_sub(COMSOL_TEMP_PAT, T, re_sub(COMSOL_ABS_TEMP_PAT, T_ABS, s)))))

\* variant: the rendering is returned as it is, '^' kept
generate_spice_result_Caret(r) ==
    [spice_generated |-> r.text, list |-> r.list, ast |-> r.ast, err |-> r.err]

generate_spice_result(r) ==
    [spice_generated |-> re_sub(CARET_PAT, <<"*", "*">>, r.text),
     list |-> r.list,
     ast |-> r.ast,
     err |-> r.err]

\* variant: T is written temp before the neutral name is resolved, and the
\* neutral name T_ABS is resolved to T
generate_spice_Staged(a) ==
    generate_spice_result(
        RenderedText(Replaced(replace_token(a, T, temp), T_ABS, T)))

\* generate_spice(ast): the string returned, the tree after the two
\* replace_token calls (they act on the caller's AST) and the exception raised
generate_spice(a) ==
    generate_spice_result(
        RenderedText(Replaced(replace_token(a, T_ABS, SPICE_KELVIN), T, temp)))

-----------------------------------------------------------------------------
(* The conversion specification: a SPICE expression is converted to COMSOL  *)
(* text by spice_to_comsol, the text is parsed by parse_comsol and the AST  *)
(* is written back as SPICE text by generate_spice.                         *)

\* the expression of the test suite and of the docstrings,
\* '81.5-0.155*temp+0.133e-3*temp**2'
SPICE_EXAMPLE ==
    <<"8", "1", ".", "5", "-", "0", ".", "1", "5", "5", "*", "t", "e", "m",
      "p", "+", "0", ".", "1", "3", "3", "e", "-", "3", "*", "t", "e", "m",
      "p", "*", "*", "2">>

ConvOperands == {temp, <<"2", "7", "3", ".", "1", "5">>, <<"2">>}
ConvOperators == {<<"+">>, <<"-">>, <<"*">>, <<"*", "*">>}

InitConv ==
    /\ pc = "start"
    /\ dialect = "spice"
    /\ round = 1
    /\ expr \in UNION {WellFormedOver(ConvOperands, ConvOperators, n) : n \in 1..MaxLexemes}
                \cup {SPICE_EXAMPLE}
    /\ tokens = <<>>
    /\ variable_list = <<>>
    /\ prefix = <<>>
    /\ ast = None
    /\ ast0 = None
    /\ rendered = <<>>
    /\ comsol_expr = <<>>
    /\ spice_expr = <<>>
    /\ var_list = {}
    /\ err = "none"
    /\ parsers = NoParsers
    /\ results = NoResults
    /\ celsius = 0
    /\ postfix_stack = <<>>
    /\ postfix_output = <<>>
    /\ postfix_i = 0
    /\ postfix_tokens = <<>>

\* comsol_expr = spice_to_comsol(expr, var_list)
SpiceToComsol ==
    /\ pc = "start"
    /\ dialect = "spice"
    /\ LET r == spice_to_comsol(expr, var_list) IN
         /\ comsol_expr' = (IF r.err = "none" THEN r.comsolString ELSE comsol_expr)
         /\ var_list' = r.var_list
         /\ variable_list' = r.variable_list
         /\ err' = r.err
         /\ pc' = (IF r.err = "none" THEN "converted" ELSE "failed")
    /\ UNCHANGED <<loopVars, dialect, round, expr, tokens, prefix, ast, ast0, rendered,
                   spice_expr, evalVars>>

\* ast = parse_comsol(comsol_expr)
ParseComsol ==
    /\ pc = "converted"
    /\ LET r == parse_comsol(comsol_expr) IN
         /\ ast' = (IF r.err = "none" THEN r.ast ELSE ast)
         /\ err' = r.err
         /\ pc' = (IF r.err = "none" THEN "parsed" ELSE "failed")
    /\ UNCHANGED <<loopVars, dialect, round, expr, tokens, variable_list, prefix, ast0,
                   rendered, convVars, evalVars>>

\* spice_expr = generate_spice(ast)
GenerateSpice ==
    /\ pc = "parsed"
    /\ LET r == generate_spice(ast) IN
         /\ ast' = r.ast
         /\ rendered' = (IF r.err = "none" THEN r.list ELSE rendered)
         /\ spice_expr' = (IF r.err = "none" THEN r.spice_generated ELSE spice_expr)
         /\ err' = r.err
         /\ pc' = (IF r.err = "none" THEN "spice_generated" ELSE "failed")
    /\ UNCHANGED <<loopVars, dialect, round, expr, tokens, variable_list, prefix, ast0,
                   comsol_expr, var_list, evalVars>>

NextConv == SpiceToComsol \/ ParseComsol \/ GenerateSpice

SpecConv == InitConv /\ [][NextConv]_vars

-----------------------------------------------------------------------------
(* Numbers.  The evaluator's values are decimal fractions n / 100^s, kept   *)
(* exactly (the sums, differences and products the interpreter computes on  *)
(* the operands of the model are taken without rounding).                   *)

Value(n, s) == [n |-> n, s |-> s]

RECURSIVE Pow100(_)
Pow100(k) == IF k <= 0 THEN 1 ELSE 100 * Pow100(k - 1)

\* the same number with the smallest scale
RECURSIVE Norm(_)
Norm(v) == IF v.s > 0 /\ v.n % 100 = 0 THEN Norm(Value(v.n \div 100, v.s - 1)) ELSE v

Scaled(v, s) == v.n * Pow100(s - v.s)
Larger(a, b) == IF a >= b THEN a ELSE b

py_add(a, b) ==
    LET s == Larger(a.s, b.s) IN Norm(Value(Scaled(a, s) + Scaled(b, s), s))
py_sub(a, b) ==
    LET s == Larger(a.s, b.s) IN Norm(Value(Scaled(a, s) - Scaled(b, s), s))
py_mul(a, b) == Norm(Value(a.n * b.n, a.s + b.s))

DigitValue(c) ==
    CASE c = "0" -> 0 [] c = "1" -> 1 [] c = "2" -> 2 [] c = "3" -> 3 [] c = "4" -> 4
      [] c = "5" -> 5 [] c = "6" -> 6 [] c = "7" -> 7 [] c = "8" -> 8 [] c = "9" -> 9

RECURSIVE DigitsValue(_)
DigitsValue(d) ==
    IF d = <<>> THEN 0
    ELSE DigitsValue(SubSeq(d, 1, Len(d) - 1)) * 10 + DigitValue(d[Len(d)])

\* the value of a decimal literal: digits, then possibly '.' and digits
NumberValue(text) ==
    LET b == SkipDigits(text, 0)
        whole == SubSeq(text, 1, b)
        frac == SubSeq(text, b + 2, Len(text))
        cents == IF Len(frac) % 2 = 1 THEN frac \o <<"0">> ELSE frac
    IN  Norm(Value(DigitsValue(whole \o cents), Len(cents) \div 2))

-----------------------------------------------------------------------------
(* The asteval Interpreter PyxEval drives: parse(expr) and run(tree) on the *)
(* interpreter's symbol table.  Expressions are Python arithmetic over      *)
(* names, decimal literals, + - * ** and parentheses; run computes + - *    *)
(* (the texts the model evaluates carry no sign, quotient, power or call).  *)
(* Of the symbol table only the names the program binds are kept.           *)

Lower == {"a", "b", "c", "d", "e", "f", "g", "h", "i", "j", "k", "l", "m", "n",
          "o", "p", "q", "r", "s", "t", "u", "v", "w", "x", "y", "z"}
Upper == {"A", "B", "C", "D", "E", "F", "G", "H", "I", "J", "K", "L", "M", "N",
          "O", "P", "Q", "R", "S", "T", "U", "V", "W", "X", "Y", "Z"}
NameStart == Lower \cup Upper \cup {"_"}
NameChar == NameStart \cup Digits

RECURSIVE SkipChars(_, _, _)
SkipChars(s, i, cs) ==
    IF i < Len(s) /\ At(s, i) \in cs THEN SkipChars(s, i + 1, cs) ELSE i

\* the lexeme that begins at position i of s ends before this position
LexemeEnd(s, i) ==
    LET c == At(s, i) IN
    IF c \in Whitespace THEN i + 1
    ELSE IF c \in NameStart THEN SkipChars(s, i, NameChar)
    ELSE IF c \in Digits THEN
        LET b == SkipDigits(s, i) IN
        IF b < Len(s) /\ At(s, b) = "." THEN SkipDigits(s, b + 1) ELSE b
    ELSE IF c = "*" /\ i + 1 < Len(s) /\ At(s, i + 1) = "*" THEN i + 2
    ELSE i + 1

\* the lexer at position i with the lexemes read so far, after one more
\* lexeme; whitespace is skipped
py_lex_step(s, i, lexemes) ==
    [i |-> LexemeEnd(s, i),
     lexemes |-> IF At(s, i) \in Whitespace THEN lexemes
                 ELSE Append(lexemes, SubSeq(s, i + 1, LexemeEnd(s, i)))]

\* the lexemes of a Python expression; a character that begins no lexeme is
\* left as a lexeme of its own, which no parse accepts
RECURSIVE py_lex_from(_, _)
py_lex_from(s, lexer) ==
    IF lexer.i >= Len(s) THEN lexer.lexemes
    ELSE py_lex_from(s, py_lex_step(s, lexer.i, lexer.lexemes))

py_lex(s, i) == py_lex_from(s, [i |-> i, lexemes |-> <<>>])

IsName(lexeme) == lexeme[1] \in NameStart
IsLiteral(lexeme) == lexeme[1] \in Digits

\* the number of '(' minus the number of ')' before lexeme k
Depth(lx, k) ==
    Cardinality({j \in 1..(k - 1) : lx[j] = <<"(">>})
    - Cardinality({j \in 1..(k - 1) : lx[j] = <<")">>})

\* the operator the expression splits at: the last + or - outside all
\* parentheses, or else the last * (both associate to the left), or else the
\* first ** (which associates to the right); 0 if none
py_split(lx) ==
    LET outer(ops) == {k \in 2..(Len(lx) - 1) : lx[k] \in ops /\ Depth(lx, k) = 0}
        last(S) == CHOOSE k \in S : \A j \in S : j <= k
        first(S) == CHOOSE k \in S : \A j \in S : j >= k
    IN  IF outer({<<"+">>, <<"-">>}) # {} THEN last(outer({<<"+">>, <<"-">>}))
        ELSE IF outer({<<"*">>}) # {} THEN last(outer({<<"*">>}))
        ELSE IF outer({<<"*", "*">>}) # {} THEN first(outer({<<"*", "*">>}))
        ELSE 0

SyntaxError == [kind |-> "SyntaxError"]

\* Interpreter.parse on the lexemes: the syntax tree, or SyntaxError
RECURSIVE py_parse(_)
py_parse(lx) ==
    IF lx = <<>> THEN SyntaxError
    ELSE
      LET k == py_split(lx) IN
      IF k > 0 THEN
          LET l == py_parse(SubSeq(lx, 1, k - 1))
              r == py_parse(SubSeq(lx, k + 1, Len(lx)))
          IN  IF l = SyntaxError \/ r = SyntaxError THEN SyntaxError
              ELSE [kind |-> "BinOp", op |-> lx[k], left |-> l, right |-> r]
      ELSE IF Len(lx) = 1 THEN
          IF IsName(lx[1]) THEN [kind |-> "Name", id |-> lx[1]]
          ELSE IF IsLiteral(lx[1]) THEN [kind |-> "Constant", value |-> NumberValue(lx[1])]
          ELSE SyntaxError
      ELSE IF lx[1] = <<"(">> /\ lx[Len(lx)] = <<")">>
      THEN py_parse(SubSeq(lx, 2, Len(lx) - 1))
      ELSE SyntaxError

\* Interpreter.run(tree): the value, or NameError for a name the symbol table
\* does not hold (run raises it or records it and returns None, according to
\* the version of asteval: no number is returned in either case)
RECURSIVE py_run(_, _)
py_run(tree, symtable) ==
    IF tree.kind = "Constant" THEN [value |-> tree.value, err |-> "none"]
    ELSE IF tree.kind = "Name" THEN
        IF tree.id \in DOMAIN symtable
        THEN [value |-> symtable[tree.id], err |-> "none"]
        ELSE [value |-> None, err |-> "NameError"]
    ELSE
        LET l == py_run(tree.left, symtable) IN
        IF l.err # "none" THEN l
        ELSE LET r == py_run(tree.right, symtable) IN
             IF r.err # "none" THEN r
             ELSE [value |-> CASE tree.op = <<"+">> -> py_add(l.value, r.value)
                               [] tree.op = <<"-">> -> py_sub(l.value, r.value)
                               [] tree.op = <<"*">> -> py_mul(l.value, r.value),
                   err |-> "none"]

-----------------------------------------------------------------------------
(* class PyxEval (pyxeval.py).  An object is a record of its fields; the    *)
(* interpreter is represented by its symbol table.                          *)

EmptySymtable == [name \in {} |-> None]

\* self.interpreter.symtable[name] = value
Bind(symtable, name, value) ==
    [k \in DOMAIN symtable \cup {name} |-> IF k = name THEN value ELSE symtable[k]]

ALLOWED_LANGUAGES == {"matlab", "python"}

\* "language.lower() == 'matlab' and '^' in expr"
MatlabPower(text, language) ==
    /\ language \in {"matlab", "Matlab", "MATLAB"}
    /\ \E k \in 1..Len(text) : text[k] = "^"

\* "self.my_parsed_expr = self.interpreter.parse(self.expr)"
PyxEval_parsed(text, argnames, tree) ==
    IF tree = SyntaxError THEN [self |-> None, err |-> "SyntaxError"]
    ELSE [self |-> [argnames |-> argnames, expr |-> text, symtable |-> EmptySymtable,
                    givenvar_symtable |-> 0, my_parsed_expr |-> tree],
          err |-> "none"]

PyxEval_expr(text, argnames) == PyxEval_parsed(text, argnames, py_parse(py_lex(text, 0)))

\* PyxEval.__init__(expr, argnames, language=language) without sym_table (the
\* program always names the language)
PyxEval(text, argnames, language) ==
    IF MatlabPower(text, language)
    THEN PyxEval_expr(re_sub(CARET_PAT, <<"*", "*">>, text), argnames)
    ELSE IF language \notin ALLOWED_LANGUAGES THEN [self |-> None, err |-> "ValueError"]
    ELSE PyxEval_expr(text, argnames)

\* "result = self.interpreter.run(self.my_parsed_expr); return result"
Returned(self, r) == [self |-> self, value |-> r.value, err |-> r.err]

Run(self, symtable) ==
    Returned([self EXCEPT !.symtable = symtable], py_run(self.my_parsed_expr, symtable))

\* the loop of aeval: the k-th value is bound to the k-th factor name
RECURSIVE BindArgs(_, _, _, _)
BindArgs(symtable, argnames, args, index) ==
    IF index > Len(args) THEN symtable
    ELSE BindArgs(Bind(symtable, argnames[index], args[index]), argnames, args, index + 1)

\* PyxEval.aeval(*args): the object after the call, the value returned and
\* the exception raised
PyxEval_aeval(self, args) ==
    IF Len(args) # Len(self.argnames)
    THEN [self |-> self, value |-> None, err |-> "ValueError"]
    ELSE Run(self, BindArgs(self.symtable, self.argnames, args, 1))

\* the loop of keval: the factors are bound in the order of argnames until one
\* is missing from kwargs, which raises NameError
RECURSIVE BindKwargs(_, _, _, _)
BindKwargs(symtable, argnames, kwargs, index) ==
    IF index > Len(argnames) THEN [symtable |-> symtable, err |-> "none"]
    ELSE IF argnames[index] \notin DOMAIN kwargs
         THEN [symtable |-> symtable, err |-> "NameError"]
         ELSE BindKwargs(Bind(symtable, argnames[index], kwargs[argnames[index]]),
                         argnames, kwargs, index + 1)

RunBound(self, b) ==
    IF b.err # "none"
    THEN [self |-> [self EXCEPT !.symtable = b.symtable], value |-> None, err |-> b.err]
    ELSE Run(self, b.symtable)

\* PyxEval.keval(**kwargs); kwargs is a function from names to values
PyxEval_keval(self, kwargs) ==
    IF Cardinality(DOMAIN kwargs) # Len(self.argnames)
    THEN [self |-> self, value |-> None, err |-> "ValueError"]
    ELSE RunBound(self, BindKwargs(self.symtable, self.argnames, kwargs, 1))

-----------------------------------------------------------------------------
(* class ExprParser (src/src/expr_parser.py).                               *)

\* str.casefold on the spellings of the two dialect names
casefold(lang) ==
    CASE lang \in {"spice", "Spice", "SPICE"} -> "spice"
      [] lang \in {"comsol", "Comsol", "COMSOL"} -> "comsol"
      [] OTHER -> lang

\* parse_spice(expr) of the parsers package: tokenizer, infix-to-prefix, AST
\* builder directly on the expression
parse_spice(s) == TreeOf(spice_tokenization(s))

\* "self.ast = ast; return ast"
Parsed(self, r) ==
    [self |-> IF r.err = "none" THEN [self EXCEPT !.ast = r.ast] ELSE self,
     err |-> r.err]

\* ExprParser.parse_spice(self)
ExprParser_parse_spice(self) ==
    IF self.initial_expr_lang = "comsol" THEN [self |-> self, err |-> "ValueError"]
    ELSE Parsed(self, parse_spice(self.expr))

\* ExprParser.parse_comsol(self)
ExprParser_parse_comsol(self) ==
    IF self.initial_expr_lang = "spice" THEN [self |-> self, err |-> "ValueError"]
    ELSE Parsed(self, parse_comsol(self.expr))

\* "self.evaluator = PyxEval(..., self.varnames, language='python')"
WithEvaluator(self, ev) ==
    [self |-> IF ev.err = "none" THEN [self EXCEPT !.evaluator = ev.self] ELSE None,
     err |-> ev.err]

\* the SPICE branch after self.parse_spice(): the evaluator gets the text
Evaluating(r) ==
    IF r.err # "none" THEN [self |-> None, err |-> r.err]
    ELSE WithEvaluator(r.self, PyxEval(r.self.spice_expr, r.self.varnames, "python"))

\* the COMSOL branch after self.parse_comsol(): the evaluator gets the
\* rendering of self.ast with '^' written '**'
to_be_eval(self, l) ==
    IF l.err # "none" THEN [self |-> None, err |-> JoinError(l.err)]
    ELSE WithEvaluator(self, PyxEval(re_sub(CARET_PAT, <<"*", "*">>, Join(l.list)),
                                     self.varnames, "python"))

EvaluatingRendering(r) ==
    IF r.err # "none" THEN [self |-> None, err |-> r.err]
    ELSE to_be_eval(r.self, inorderAST(r.self.ast))

\* the fields set before a branch of __init__ parses
Fields(text, varnames, initial_lang, spice_text, comsol_text) ==
    [varnames |-> varnames, expr |-> text, initial_expr_lang |-> initial_lang,
     ast |-> None, spice_expr |-> spice_text, comsol_expr |-> comsol_text,
     evaluator |-> None]

\* None where a dialect is expected: the default of initial_lang.  The dialects
\* are kept as strings, and None as a text no caller writes for a dialect.
NoLanguage == "<None>"

\* ExprParser.__init__(expr, varnames, initial_lang) with a list of names: the
\* object built, or None and the exception.  initial_lang.casefold() raises
\* AttributeError on None.
ExprParser(text, varnames, initial_lang) ==
    IF initial_lang = NoLanguage THEN [self |-> None, err |-> "AttributeError"]
    ELSE IF casefold(initial_lang) = "spice" THEN
        Evaluating(ExprParser_parse_spice(
            Fields(text, varnames, initial_lang, text, None)))
    ELSE IF casefold(initial_lang) = "comsol" THEN
        EvaluatingRendering(ExprParser_parse_comsol(
            Fields(text, varnames, initial_lang, None, text)))
    ELSE [self |-> None, err |-> "ValueError"]

\* "ev = self.evaluator.aeval(*args); return ev"
Evaluated(self, r) ==
    [self |-> [self EXCEPT !.evaluator = r.self], value |-> r.value, err |-> r.err]

\* ExprParser.aeval(*args)
ExprParser_aeval(self, args) == Evaluated(self, PyxEval_aeval(self.evaluator, args))

\* ExprParser.keval(**kwargs)
ExprParser_keval(self, kwargs) == Evaluated(self, PyxEval_keval(self.evaluator, kwargs))

\* "spice_generated = generate_spice(self.ast); return spice_generated": the
\* replacements act on self.ast
Generated(self, r) ==
    [self |-> [self EXCEPT !.ast = r.ast], value |-> r.spice_generated, err |-> r.err]

\* ExprParser.generate_spice(self)
ExprParser_generate_spice(self) ==
    IF self.initial_expr_lang = "spice"
    THEN [self |-> self, value |-> self.spice_expr, err |-> "none"]
    ELSE Generated(self, generate_spice(self.ast))

-----------------------------------------------------------------------------
(* The evaluation specification: the caller holds a matched pair, a SPICE   *)
(* expression and the COMSOL text of the same quantity, builds an           *)
(* ExprParser from each (varnames ['temp'] and ['T']) and calls aeval and   *)
(* keval on them, in any order and any number of times, at a temperature:   *)
(* in degrees Celsius on the SPICE object, in Kelvin on the COMSOL object.  *)

EvalOperands == {temp, SPICE_KELVIN, <<"2">>}
EvalOperators == {<<"+">>, <<"-">>, <<"*">>}
Temperatures == {0, 25}

\* the COMSOL text of the quantity a SPICE text describes: (temp+273.15) is
\* (T/1[K]), any other temp is ((T-0[degC])/1[K])
MatchedComsol(s) ==
    re_sub(Lits(temp), COMSOL_CELSIUS, re_sub(Lits(SPICE_KELVIN), COMSOL_KELVIN, s))

\* 273.15
KelvinOffset == Value(27315, 1)

\* the temperature in the unit of the object's dialect
Temperature(which) ==
    IF which = "spice" THEN Value(celsius, 0)
    ELSE py_add(Value(celsius, 0), KelvinOffset)

VarName(which) == IF which = "spice" THEN temp ELSE T

\* aeval(25) / aeval(25 + 273.15)
Args(which) == <<Temperature(which)>>

\* keval(temp=25) / keval(T=25 + 273.15)
Kwargs(which) == [k \in {VarName(which)} |-> Temperature(which)]

InitEval ==
    /\ pc = "start"
    /\ dialect = "spice"
    /\ round = 1
    /\ expr \in UNION {WellFormedOver(EvalOperands, EvalOperators, n) : n \in 1..MaxEvalLexemes}
    /\ tokens = <<>>
    /\ variable_list = <<>>
    /\ prefix = <<>>
    /\ ast = None
    /\ ast0 = None
    /\ rendered = <<>>
    /\ comsol_expr = MatchedComsol(expr)
    /\ spice_expr = <<>>
    /\ var_list = {}
    /\ err = "none"
    /\ parsers = NoParsers
    /\ results = NoResults
    /\ celsius \in Temperatures
    /\ postfix_stack = <<>>
    /\ postfix_output = <<>>
    /\ postfix_i = 0
    /\ postfix_tokens = <<>>

\* parsers[which] = ExprParser(expr=..., varnames=[...], initial_lang=which)
Construct ==
    \E which \in {"spice", "comsol"} :
        /\ parsers[which] = None
        /\ LET r == ExprParser(IF which = "spice" THEN expr ELSE comsol_expr,
                               <<VarName(which)>>, which) IN
             /\ parsers' = [parsers EXCEPT ![which] = r.self]
             /\ err' = r.err
        /\ UNCHANGED <<loopVars, pc, dialect, round, expr, tokens, variable_list, prefix, ast,
                       ast0, rendered, convVars, results, celsius>>

\* results[which].aeval = parsers[which].aeval(temperature)
Aeval ==
    \E which \in {"spice", "comsol"} :
        /\ parsers[which] # None
        /\ LET r == ExprParser_aeval(parsers[which], Args(which)) IN
             /\ parsers' = [parsers EXCEPT ![which] = r.self]
             /\ results' = [results EXCEPT ![which].aeval =
                               [value |-> r.value, err |-> r.err]]
             /\ err' = r.err
        /\ UNCHANGED <<loopVars, pc, dialect, round, expr, tokens, variable_list, prefix, ast,
                       ast0, rendered, convVars, celsius>>

\* results[which].keval = parsers[which].keval(name=temperature)
Keval ==
    \E which \in {"spice", "comsol"} :
        /\ parsers[which] # None
        /\ LET r == ExprParser_keval(parsers[which], Kwargs(which)) IN
             /\ parsers' = [parsers EXCEPT ![which] = r.self]
             /\ results' = [results EXCEPT ![which].keval =
                               [value |-> r.value, err |-> r.err]]
             /\ err' = r.err
        /\ UNCHANGED <<loopVars, pc, dialect, round, expr, tokens, variable_list, prefix, ast,
                       ast0, rendered, convVars, celsius>>

NextEval == Construct \/ Aeval \/ Keval

SpecEval == InitEval /\ [][NextEval]_vars

-----------------------------------------------------------------------------
(* The origin specification: the caller builds an ExprParser from a SPICE   *)
(* expression and one from its COMSOL text, naming the dialect in one of    *)
(* its spellings, naming another language or naming none, and then calls    *)
(* parse_spice() and parse_comsol() on the objects built.                   *)

Spellings(which) ==
    IF which = "spice" THEN {"spice", "SPICE"} ELSE {"comsol", "COMSOL"}

\* initial_lang='matlab', and initial_lang omitted
Unrecognized == {"matlab", NoLanguage}

\* no constructor and no method has been called yet
NoCalls ==
    [spice |-> [init |-> None, parse_spice |-> None, parse_comsol |-> None],
     comsol |-> [init |-> None, parse_spice |-> None, parse_comsol |-> None]]

InitOrigin ==
    /\ pc = "start"
    /\ dialect = "spice"
    /\ round = 1
    /\ expr \in UNION {WellFormedOver(EvalOperands, EvalOperators, n) : n \in 1..MaxEvalLexemes}
    /\ tokens = <<>>
    /\ variable_list = <<>>
    /\ prefix = <<>>
    /\ ast = None
    /\ ast0 = None
    /\ rendered = <<>>
    /\ comsol_expr = MatchedComsol(expr)
    /\ spice_expr = <<>>
    /\ var_list = {}
    /\ err = "none"
    /\ parsers = NoParsers
    /\ results = NoCalls
    /\ celsius = 0
    /\ postfix_stack = <<>>
    /\ postfix_output = <<>>
    /\ postfix_i = 0
    /\ postfix_tokens = <<>>

\* parsers[which] = ExprParser(expr=..., varnames=[...], initial_lang=lang), or
\* ExprParser(expr=..., varnames=[...]) when no dialect is named
ConstructAs ==
    \E which \in {"spice", "comsol"} :
        \E lang \in Spellings(which) \cup Unrecognized :
            /\ results[which].init = None
            /\ LET r == ExprParser(IF which = "spice" THEN expr ELSE comsol_expr,
                                   <<VarName(which)>>, lang) IN
                 /\ parsers' = [parsers EXCEPT ![which] = r.self]
                 /\ results' = [results EXCEPT ![which].init =
                                   [initial_lang |-> lang, err |-> r.err]]
                 /\ err' = r.err
            /\ UNCHANGED <<loopVars, pc, dialect, round, expr, tokens, variable_list, prefix,
                           ast, ast0, rendered, convVars, celsius>>

\* parsers[which].parse_spice()
ParseSpice ==
    \E which \in {"spice", "comsol"} :
        /\ parsers[which] # None
        /\ LET r == ExprParser_parse_spice(parsers[which]) IN
             /\ parsers' = [parsers EXCEPT ![which] = r.self]
             /\ results' = [results EXCEPT ![which].parse_spice = [err |-> r.err]]
             /\ err' = r.err
        /\ UNCHANGED <<loopVars, pc, dialect, round, expr, tokens, variable_list, prefix, ast,
                       ast0, rendered, convVars, celsius>>

\* parsers[which].parse_comsol()
ParseComsolOn ==
    \E which \in {"spice", "comsol"} :
        /\ parsers[which] # None
        /\ LET r == ExprParser_parse_comsol(parsers[which]) IN
             /\ parsers' = [parsers EXCEPT ![which] = r.self]
             /\ results' = [results EXCEPT ![which].parse_comsol = [err |-> r.err]]
             /\ err' = r.err
        /\ UNCHANGED <<loopVars, pc, dialect, round, expr, tokens, variable_list, prefix, ast,
                       ast0, rendered, convVars, celsius>>

NextOrigin == ConstructAs \/ ParseSpice \/ ParseComsolOn

SpecOrigin == InitOrigin /\ [][NextOrigin]_vars

-----------------------------------------------------------------------------
(* The repetition specification: a caller of comsol_parser.py holds a       *)
(* COMSOL expression, calls parse_comsol on it several times and renders    *)
(* the AST returned several times; it also builds an ExprParser from the    *)
(* expression and calls generate_spice() on that object several times in a  *)
(* row.  results keeps what every call returned, in the order of the calls. *)

RepeatOperands == {COMSOL_KELVIN, COMSOL_CELSIUS, <<"2">>}
RepeatOperators == {<<"+">>, <<"-">>, <<"*">>, <<"^">>}

\* no call made yet
NoReturns == [parse_comsol |-> <<>>, inorderAST |-> <<>>, generate_spice |-> <<>>]

InitRepeat ==
    /\ pc = "start"
    /\ dialect = "comsol"
    /\ round = 1
    /\ expr \in UNION {WellFormedOver(RepeatOperands, RepeatOperators, n) : n \in 1..MaxEvalLexemes}
    /\ tokens = <<>>
    /\ variable_list = <<>>
    /\ prefix = <<>>
    /\ ast = None
    /\ ast0 = None
    /\ rendered = <<>>
    /\ comsol_expr = <<>>
    /\ spice_expr = <<>>
    /\ var_list = {}
    /\ err = "none"
    /\ parsers = NoParsers
    /\ results = NoReturns
    /\ celsius = 0
    /\ postfix_stack = <<>>
    /\ postfix_output = <<>>
    /\ postfix_i = 0
    /\ postfix_tokens = <<>>

\* ast = parse_comsol(expr)
ParseComsolCall ==
    /\ Len(results.parse_comsol) < MaxCalls
    /\ LET r == parse_comsol(expr) IN
         /\ ast' = (IF r.err = "none" THEN r.ast ELSE ast)
         /\ results' = [results EXCEPT !.parse_comsol = Append(@, r)]
         /\ err' = r.err
    /\ UNCHANGED <<loopVars, pc, dialect, round, expr, tokens, variable_list, prefix, ast0,
                   rendered, convVars, parsers, celsius>>

\* rendered = ast.inorderAST()
InorderASTCall ==
    /\ ast # None
    /\ Len(results.inorderAST) < MaxCalls
    /\ LET r == inorderAST(ast) IN
         /\ rendered' = (IF r.err = "none" THEN r.list ELSE rendered)
         /\ results' = [results EXCEPT !.inorderAST = Append(@, r)]
         /\ err' = r.err
    /\ UNCHANGED <<loopVars, pc, dialect, round, expr, tokens, variable_list, prefix, ast,
                   ast0, convVars, parsers, celsius>>

\* parsers.comsol = ExprParser(expr=expr, varnames=['T'], initial_lang=lang)
ConstructComsol ==
    \E lang \in Spellings("comsol") :
        /\ parsers.comsol = None
        /\ LET r == ExprParser(expr, <<T>>, lang) IN
             /\ parsers' = [parsers EXCEPT !.comsol = r.self]
             /\ err' = r.err
        /\ UNCHANGED <<loopVars, pc, dialect, round, expr, tokens, variable_list, prefix, ast,
                       ast0, rendered, convVars, results, celsius>>

\* spice_expr = parsers.comsol.generate_spice()
GenerateSpiceCall ==
    /\ parsers.comsol # None
    /\ Len(results.generate_spice) < MaxCalls
    /\ LET r == ExprParser_generate_spice(parsers.comsol) IN
         /\ parsers' = [parsers EXCEPT !.comsol = r.self]
         /\ spice_expr' = (IF r.err = "none" THEN r.value ELSE spice_expr)
         /\ results' = [results EXCEPT !.generate_spice =
                           Append(@, [value |-> r.value, err |-> r.err])]
         /\ err' = r.err
    /\ UNCHANGED <<loopVars, pc, dialect, round, expr, tokens, variable_list, prefix, ast,
                   ast0, rendered, comsol_expr, var_list, celsius>>

NextRepeat == ParseComsolCall \/ InorderASTCall \/ ConstructComsol \/ GenerateSpiceCall

SpecRepeat == InitRepeat /\ [][NextRepeat]_vars

-----------------------------------------------------------------------------
(* The mismatch specification: the caller builds an ExprParser from a SPICE *)
(* expression of two factors, varnames ['temp', 'x'], and calls aeval with  *)
(* any number of values and keval with any set of keywords.  results keeps  *)
(* the last call: the symbol table it found and what it returned.           *)

MismatchOperands == {temp, <<"x">>}
MismatchOperators == {<<"+">>, <<"*">>}

\* varnames=['temp', 'x']
Factors == <<temp, <<"x">>>>

\* the keywords a caller writes: the two factors and a name that is none
Keywords == {temp, <<"x">>, <<"y">>}

\* the values a caller gives
GivenValues == {Value(1, 0), Value(25, 0)}

\* aeval(), aeval(v), aeval(v, w), aeval(v, w, u)
GivenArgs == UNION {[1..n -> GivenValues] : n \in 0..(Len(Factors) + 1)}

\* keval(), keval(temp=v), keval(temp=v, y=w), ...
GivenKwargs == UNION {[names -> GivenValues] : names \in SUBSET Keywords}

NoCall == [method |-> "none"]

InitMismatch ==
    /\ pc = "start"
    /\ dialect = "spice"
    /\ round = 1
    /\ expr \in UNION {WellFormedOver(MismatchOperands, MismatchOperators, n) : n \in 1..MaxEvalLexemes}
    /\ tokens = <<>>
    /\ variable_list = <<>>
    /\ prefix = <<>>
    /\ ast = None
    /\ ast0 = None
    /\ rendered = <<>>
    /\ comsol_expr = <<>>
    /\ spice_expr = <<>>
    /\ var_list = {}
    /\ err = "none"
    /\ parsers = NoParsers
    /\ results = NoCall
    /\ celsius = 0
    /\ postfix_stack = <<>>
    /\ postfix_output = <<>>
    /\ postfix_i = 0
    /\ postfix_tokens = <<>>

\* parsers.spice = ExprParser(expr=expr, varnames=['temp', 'x'], initial_lang='spice')
ConstructFactors ==
    /\ parsers.spice = None
    /\ LET r == ExprParser(expr, Factors, "spice") IN
         /\ parsers' = [parsers EXCEPT !.spice = r.self]
         /\ err' = r.err
    /\ UNCHANGED <<loopVars, pc, dialect, round, expr, tokens, variable_list, prefix, ast,
                   ast0, rendered, convVars, results, celsius>>

\* parsers.spice.aeval(*args)
AevalWith ==
    \E args \in GivenArgs :
        /\ parsers.spice # None
        /\ LET r == ExprParser_aeval(parsers.spice, args) IN
             /\ parsers' = [parsers EXCEPT !.spice = r.self]
             /\ results' = [method |-> "aeval", given |-> Len(args),
                             symtable |-> parsers.spice.evaluator.symtable,
                             value |-> r.value, err |-> r.err]
             /\ err' = r.err
        /\ UNCHANGED <<loopVars, pc, dialect, round, expr, tokens, variable_list, prefix, ast,
                       ast0, rendered, convVars, celsius>>

\* parsers.spice.keval(**kwargs)
KevalWith ==
    \E kwargs \in GivenKwargs :
        /\ parsers.spice # None
        /\ LET r == ExprParser_keval(parsers.spice, kwargs) IN
             /\ parsers' = [parsers EXCEPT !.spice = r.self]
             /\ results' = [method |-> "keval", given |-> DOMAIN kwargs,
                             symtable |-> parsers.spice.evaluator.symtable,
                             value |-> r.value, err |-> r.err]
             /\ err' = r.err
        /\ UNCHANGED <<loopVars, pc, dialect, round, expr, tokens, variable_list, prefix, ast,
                       ast0, rendered, convVars, celsius>>

NextMismatch == ConstructFactors \/ AevalWith \/ KevalWith

SpecMismatch == InitMismatch /\ [][NextMismatch]_vars

-----------------------------------------------------------------------------
(* The substitution specification: a caller of comsol_parser.py builds an   *)
(* AST from an expression (well-formed, or ending in an operator, which     *)
(* gives an operator node with a field left None) and calls replace_token   *)
(* on it, any number of times with any operand texts.  results keeps the    *)
(* last call: its arguments, the tree it found and the exception raised.    *)

ReplaceOperands == {<<"a">>, <<"b">>}
ReplaceOperators == {<<"+">>, <<"^">>}

\* 'a+', 'a^' and 'a+b^'
EndingInOperator ==
    {<<"a", "+">>, <<"a", "^">>, <<"a", "+", "b", "^">>}

\* the texts a caller passes as match and as replace
ReplaceTexts == {<<"a">>, <<"b">>, <<"c">>}

InitReplace ==
    /\ pc = "start"
    /\ dialect = "comsol"
    /\ round = 1
    /\ expr \in UNION {WellFormedOver(ReplaceOperands, ReplaceOperators, n) : n \in 1..MaxLen}
                \cup EndingInOperator
    /\ tokens = <<>>
    /\ variable_list = <<>>
    /\ prefix = <<>>
    /\ ast = None
    /\ ast0 = None
    /\ rendered = <<>>
    /\ comsol_expr = <<>>
    /\ spice_expr = <<>>
    /\ var_list = {}
    /\ err = "none"
    /\ parsers = NoParsers
    /\ results = NoCall
    /\ celsius = 0
    /\ postfix_stack = <<>>
    /\ postfix_output = <<>>
    /\ postfix_i = 0
    /\ postfix_tokens = <<>>

\* ast.replace_token(match, replace)
ReplaceToken ==
    \E match \in ReplaceTexts, replace \in ReplaceTexts :
        /\ pc \in {"constructed", "replaced"}
        /\ LET r == replace_token(ast, match, replace) IN
             /\ ast' = r.ast
             /\ err' = r.err
             /\ results' = [method |-> "replace_token", match |-> match,
                             replace |-> replace, ast |-> ast, err |-> r.err]
        /\ pc' = "replaced"
        /\ UNCHANGED <<loopVars, dialect, round, expr, tokens, variable_list, prefix, ast0,
                       rendered, convVars, parsers, celsius>>

NextReplace == TokenizeComsol \/ NewAST \/ ReplaceToken

SpecReplace == InitReplace /\ [][NextReplace]_vars

-----------------------------------------------------------------------------
(* The builder specification: a caller hands AST.getAST a well-formed       *)
(* prefix token sequence:  P ::= operand | operator P P.                    *)

PrefixOperators == {"-", "*", "^"}

\* the well-formed prefix sequences of exactly n tokens
RECURSIVE PrefixForms(_)
PrefixForms(n) ==
    IF n < 1 THEN {}
    ELSE IF n = 1 THEN {<<Variable(<<o>>)>> : o \in Operands}
    ELSE UNION {{<<Operator(o)>> \o l \o r : l \in PrefixForms(k),
                                             r \in PrefixForms(n - 1 - k),
                                             o \in PrefixOperators} : k \in 1..(n - 2)}

InitPrefix ==
    /\ pc = "prefixed"
    /\ dialect = "comsol"
    /\ round = 1
    /\ expr = <<>>
    /\ tokens = <<>>
    /\ variable_list = <<>>
    /\ prefix \in UNION {PrefixForms(n) : n \in 1..MaxExprLen}
    /\ ast = None
    /\ ast0 = None
    /\ rendered = <<>>
    /\ comsol_expr = <<>>
    /\ spice_expr = <<>>
    /\ var_list = {}
    /\ err = "none"
    /\ parsers = NoParsers
    /\ results = NoResults
    /\ celsius = 0
    /\ postfix_stack = <<>>
    /\ postfix_output = <<>>
    /\ postfix_i = 0
    /\ postfix_tokens = <<>>

NextPrefix == GetAST

SpecPrefix == InitPrefix /\ [][NextPrefix]_vars

-----------------------------------------------------------------------------
(* The reduction specification: infix_to_prefix on the tokens of a          *)
(* well-formed expression, with the loop of infix_to_postfix taken one      *)
(* token at a time.                                                         *)

\* infix_to_prefix up to the call of infix_to_postfix, and the first lines of
\* infix_to_postfix: the reversed copy with its parentheses swapped (they are
\* the caller's objects), put between '(' and ')'
PostfixEnter ==
    /\ pc = "tokenized"
    /\ tokens' = [k \in 1..Len(tokens) |-> Flip(tokens[k])]
    /\ postfix_tokens' = Bracketed(Reverse(tokens'))
    /\ postfix_stack' = <<>>
    /\ postfix_output' = <<>>
    /\ postfix_i' = 0
    /\ pc' = "postfix"
    /\ UNCHANGED <<dialect, round, expr, variable_list, prefix, ast, ast0, rendered,
                   convVars, err, evalVars>>

\* "Variable token case"
PostfixVariable ==
    /\ pc = "postfix"
    /\ postfix_i < Len(postfix_tokens)
    /\ is_variable(At(postfix_tokens, postfix_i))
    /\ postfix_output' = Append(postfix_output, At(postfix_tokens, postfix_i))
    /\ postfix_i' = postfix_i + 1
    /\ UNCHANGED <<pc, dialect, round, expr, tokens, variable_list, prefix, ast, ast0,
                   rendered, convVars, err, evalVars, postfix_stack, postfix_tokens>>

\* "Paranthesis token case", '('
PostfixOpen ==
    /\ pc = "postfix"
    /\ postfix_i < Len(postfix_tokens)
    /\ is_paranthesis(At(postfix_tokens, postfix_i))
    /\ At(postfix_tokens, postfix_i).par = "("
    /\ postfix_stack' = Append(postfix_stack, At(postfix_tokens, postfix_i))
    /\ postfix_i' = postfix_i + 1
    /\ UNCHANGED <<pc, dialect, round, expr, tokens, variable_list, prefix, ast, ast0,
                   rendered, convVars, err, evalVars, postfix_output, postfix_tokens>>

\* "Paranthesis token case", ')'
PostfixClose ==
    /\ pc = "postfix"
    /\ postfix_i < Len(postfix_tokens)
    /\ is_paranthesis(At(postfix_tokens, postfix_i))
    /\ At(postfix_tokens, postfix_i).par # "("
    /\ LET r == PopToOpen(postfix_stack, postfix_output) IN
         /\ postfix_stack' = (IF r.err = "none" THEN Pop(r.token_stack) ELSE r.token_stack)
         /\ postfix_output' = r.output
         /\ err' = r.err
         /\ pc' = (IF r.err = "none" THEN pc ELSE "failed")
    /\ postfix_i' = postfix_i + 1
    /\ UNCHANGED <<dialect, round, expr, tokens, variable_list, prefix, ast, ast0,
                   rendered, convVars, evalVars, postfix_tokens>>

\* "Operator token case"
PostfixOperator ==
    /\ pc = "postfix"
    /\ postfix_i < Len(postfix_tokens)
    /\ is_operator(At(postfix_tokens, postfix_i))
    /\ LET r == PopWhile(postfix_stack, postfix_output, At(postfix_tokens, postfix_i)) IN
         /\ postfix_stack' = (IF r.err = "none"
                              THEN Append(r.token_stack, At(postfix_tokens, postfix_i))
                              ELSE r.token_stack)
         /\ postfix_output' = r.output
         /\ err' = r.err
         /\ pc' = (IF r.err = "none" THEN pc ELSE "failed")
    /\ postfix_i' = postfix_i + 1
    /\ UNCHANGED <<dialect, round, expr, tokens, variable_list, prefix, ast, ast0,
                   rendered, convVars, evalVars, postfix_tokens>>

\* the end of the loop: the rest of the stack goes to the output, and
\* infix_to_prefix returns the output reversed
PostfixReturn ==
    /\ pc = "postfix"
    /\ postfix_i >= Len(postfix_tokens)
    /\ postfix_output' = postfix_output \o Reverse(postfix_stack)
    /\ postfix_stack' = <<>>
    /\ prefix' = Reverse(postfix_output')
    /\ pc' = "prefixed"
    /\ UNCHANGED <<dialect, round, expr, tokens, variable_list, ast, ast0, rendered,
                   convVars, err, evalVars, postfix_i, postfix_tokens>>

NextPostfix ==
    \/ TokenizeComsol
    \/ PostfixEnter
    \/ PostfixVariable
    \/ PostfixOpen
    \/ PostfixClose
    \/ PostfixOperator
    \/ PostfixReturn

SpecPostfix == InitParse /\ [][NextPostfix]_vars

-----------------------------------------------------------------------------
(* The rebuilding specification: a caller of comsol_parser.py tokenizes a   *)
(* well-formed expression and builds an AST from the token list, then a     *)
(* second AST from the same list.                                           *)

\* ast0 = ast; ast = AST(tokens), the second time
Rebuild ==
    /\ pc = "constructed"
    /\ LET r == AST_of_list(tokens) IN
         /\ tokens' = r.token_list
         /\ ast' = (IF r.err = "none" THEN r.ast ELSE ast)
         /\ err' = r.err
         /\ pc' = (IF r.err = "none" THEN "rebuilt" ELSE "rebuild_failed")
    /\ ast0' = ast
    /\ UNCHANGED <<loopVars, dialect, round, expr, variable_list, prefix, rendered,
                   convVars, evalVars>>

NextRebuild == TokenizeComsol \/ NewAST \/ Rebuild

SpecRebuild == InitParse /\ [][NextRebuild]_vars

-----------------------------------------------------------------------------
(* The signed specification: a caller of comsol_parser.py parses and        *)
(* renders a well-formed expression in which a unary minus may stand at the *)
(* start and directly after any '(': -a+b, (-a)*b, -(a+b), a*(-(b)).        *)

\* the places of w a unary minus may take: 0 for the start, k for directly
\* after the '(' that is the k-th character
MinusPoints(w) == {0} \cup {k \in 1..Len(w) : w[k] = "("}

\* w from its k-th character on, with a '-' at each of the places chosen
RECURSIVE InsertMinus(_, _, _)
InsertMinus(w, places, k) ==
    IF k > Len(w) THEN <<>>
    ELSE (IF (k - 1) \in places THEN <<"-">> ELSE <<>>)
           \o <<w[k]>> \o InsertMinus(w, places, k + 1)

SignedForms(w) == {InsertMinus(w, places, 1) : places \in SUBSET MinusPoints(w)}

InitSigned ==
    /\ pc = "start"
    /\ dialect = "comsol"
    /\ round = 1
    /\ expr \in UNION {SignedForms(w) : w \in UNION {WellFormed(n) : n \in 1..MaxLen}}
    /\ tokens = <<>>
    /\ variable_list = <<>>
    /\ prefix = <<>>
    /\ ast = None
    /\ ast0 = None
    /\ rendered = <<>>
    /\ comsol_expr = <<>>
    /\ spice_expr = <<>>
    /\ var_list = {}
    /\ err = "none"
    /\ parsers = NoParsers
    /\ results = NoResults
    /\ celsius = 0
    /\ postfix_stack = <<>>
    /\ postfix_output = <<>>
    /\ postfix_i = 0
    /\ postfix_tokens = <<>>

NextSigned == TokenizeComsol \/ InfixToPrefix \/ GetAST \/ InorderAST

SpecSigned == InitSigned /\ [][NextSigned]_vars

-----------------------------------------------------------------------------
(* The placeholder specification: the caller holds a SPICE expression and   *)
(* converts it with spice_to_comsol, or holds a COMSOL expression; the      *)
(* COMSOL text goes through parse_comsol and generate_spice.  Either        *)
(* expression may carry a unary minus at the start and directly after any   *)
(* '(': -(T/1[K])*2, (-(temp+273.15)).                                      *)

SignedSpiceOperands == {temp, SPICE_KELVIN, <<"2">>}

SignedSpice ==
    UNION {SignedForms(w) :
             w \in UNION {WellFormedOver(SignedSpiceOperands, ConvOperators, n) :
                            n \in 1..MaxEvalLexemes}}

SignedComsol ==
    UNION {SignedForms(w) :
             w \in UNION {WellFormedOver(RepeatOperands, RepeatOperators, n) :
                            n \in 1..MaxEvalLexemes}}

InitPlaceholder ==
    /\ \/ /\ dialect = "spice"
          /\ pc = "start"
          /\ expr \in SignedSpice
          /\ comsol_expr = <<>>
       \/ /\ dialect = "comsol"
          /\ pc = "converted"
          /\ expr = <<>>
          /\ comsol_expr \in SignedComsol
    /\ round = 1
    /\ tokens = <<>>
    /\ variable_list = <<>>
    /\ prefix = <<>>
    /\ ast = None
    /\ ast0 = None
    /\ rendered = <<>>
    /\ spice_expr = <<>>
    /\ var_list = {}
    /\ err = "none"
    /\ parsers = NoParsers
    /\ results = NoResults
    /\ celsius = 0
    /\ postfix_stack = <<>>
    /\ postfix_output = <<>>
    /\ postfix_i = 0
    /\ postfix_tokens = <<>>

SpecPlaceholder == InitPlaceholder /\ [][NextConv]_vars

-----------------------------------------------------------------------------
(* The tree standard arithmetic precedence prescribes for a well-formed     *)
(* infix token sequence, written from the grammar and not from the          *)
(* converter: split at the operator outside all parentheses that binds      *)
(* loosest; among equals split at the last one (left-associative), or at    *)
(* the first one for '^' (right-associative).                               *)

Binding(symbol) ==
    CASE symbol \in {"+", "-"} -> 1
      [] symbol \in {"*", "/"} -> 2
      [] symbol = "^" -> 3

OpensBefore(seq, k) ==
    Cardinality({j \in 1..(k - 1) : seq[j] = Paranthesis("(")})
      - Cardinality({j \in 1..(k - 1) : seq[j] = Paranthesis(")")})

OutermostOperators(seq) ==
    {k \in 1..Len(seq) : is_operator(seq[k]) /\ OpensBefore(seq, k) = 0}

SplitPoint(seq) ==
    LET ops == OutermostOperators(seq)
        loosest == CHOOSE k \in ops : \A j \in ops : Binding(seq[k].op) <= Binding(seq[j].op)
        same == {k \in ops : Binding(seq[k].op) = Binding(seq[loosest].op)}
    IN  IF seq[loosest].op = "^"
        THEN CHOOSE k \in same : \A j \in same : k <= j
        ELSE CHOOSE k \in same : \A j \in same : k >= j

RECURSIVE StandardTree(_)
StandardTree(seq) ==
    IF Len(seq) = 1 THEN [token |-> seq[1]]
    ELSE IF OutermostOperators(seq) = {} THEN StandardTree(SubSeq(seq, 2, Len(seq) - 1))
    ELSE LET k == SplitPoint(seq)
             l == StandardTree(SubSeq(seq, 1, k - 1))
             r == StandardTree(SubSeq(seq, k + 1, Len(seq)))
         IN  IF seq[k].op = "^"
             THEN [token |-> seq[k], base |-> l, power |-> r]
             ELSE [token |-> seq[k], left |-> l, right |-> r]

Leaf(c) == [token |-> Variable(<<c>>)]
Bin(o, l, r) == [token |-> Operator(o), left |-> l, right |-> r]
Pow(b, e) == [token |-> Operator("^"), base |-> b, power |-> e]

\* the infix token sequence the caller started this round from
InfixTokens == comsol_tokenization(expr).tokens

-----------------------------------------------------------------------------
\* C1: for every well-formed infix token sequence, infix_to_prefix followed by
\* getAST yields the tree standard precedence prescribes ('^' tightest and
\* right-associative, '*' '/' next and '+' '-' lowest, both left-associative);
\* a^b^a becomes ^(a, ^(b, a)) and a-b-a becomes -(-(a, b), a).
C1_StandardPrecedenceTree ==
    (pc = "built") =>
        /\ ast = StandardTree(InfixTokens)
        /\ (expr = <<"a", "^", "b", "^", "a">>
              => ast = Pow(Leaf("a"), Pow(Leaf("b"), Leaf("a"))))
        /\ (expr = <<"a", "-", "b", "-", "a">>
              => ast = Bin("-", Bin("-", Leaf("a"), Leaf("b")), Leaf("a")))

C1_Witness ==
    /\ pc = "built"
    /\ expr = <<"a", "-", "b", "*", "a", "^", "b">>
    /\ ast = Bin("-", Leaf("a"), Bin("*", Leaf("b"), Pow(Leaf("a"), Leaf("b"))))

-----------------------------------------------------------------------------
\* text of the rendering, ''.join(str(t) for t in ast.inorderAST())
Text == Join(rendered)

\* C2 as stated: joining inorderAST() of the AST parsed from a well-formed
\* expression e reproduces the text of e exactly, apart from one pair of
\* outermost parentheses.
C2_RoundTripIdentity ==
    (round = 1 /\ pc = "rendered") =>
        (Text = expr \/ <<"(">> \o Text \o <<")">> = expr)

\* C2 as amended: when e is itself text rendered by inorderAST(), joining
\* inorderAST() of the AST parsed from e reproduces e exactly.
C2_RenderedTextRoundTrips ==
    (round >= 2 /\ pc = "rendered") => Text = expr

C2_Witness ==
    /\ round = 2
    /\ pc = "rendered"
    /\ expr = <<"(", "a", "+", "b", ")", "*", "a">>
    /\ Text = expr

\* C3: tokenizing and parsing the text rendered by t.inorderAST() yields a tree
\* structurally identical to t.
C3_RenderingKeepsTree ==
    (round >= 2 /\ pc = "built") => ast = ast0

-----------------------------------------------------------------------------
(* The rendering the parenthesis rule describes, as text: a child of a      *)
(* binary node is parenthesized exactly when it is an operator node of      *)
(* strictly lower precedence, a child of a power node exactly when it is an *)
(* operator node.                                                           *)

IsPower(node) == node.token = Operator("^")
IsInterior(node) == node.token.cls = "Operator"
FirstChild(node) == IF IsPower(node) THEN node.base ELSE node.left
SecondChild(node) == IF IsPower(node) THEN node.power ELSE node.right

Parenthesized(parent, child) ==
    /\ IsInterior(child)
    /\ \/ IsPower(parent)
       \/ Binding(child.token.op) < Binding(parent.token.op)

RECURSIVE RuleText(_)
RuleText(node) ==
    IF ~IsInterior(node) THEN node.token.var
    ELSE LET side(child) == IF Parenthesized(node, child)
                            THEN <<"(">> \o RuleText(child) \o <<")">>
                            ELSE RuleText(child)
         IN  side(FirstChild(node)) \o <<node.token.op>> \o side(SecondChild(node))

\* C4: inorderAST() parenthesizes a child of a binary node exactly when the
\* child is an operator node of strictly lower precedence than the parent, a
\* child of a power node exactly when it is an operator node, and emits no
\* other parentheses; a+b*a renders without parentheses and (a+b)*a keeps its
\* pair.
C4_ParenthesisRule ==
    (pc = "rendered") =>
        /\ Text = RuleText(ast)
        /\ (ast = Bin("+", Leaf("a"), Bin("*", Leaf("b"), Leaf("a")))
              => Text = <<"a", "+", "b", "*", "a">>)
        /\ (ast = Bin("*", Bin("+", Leaf("a"), Leaf("b")), Leaf("a"))
              => Text = <<"(", "a", "+", "b", ")", "*", "a">>)

C4_Witness ==
    /\ pc = "rendered"
    /\ round = 1
    /\ expr = <<"(", "a", "+", "b", ")", "*", "a">>
    /\ Text = expr

-----------------------------------------------------------------------------
(* Properties of the tokenizers.                                            *)

\* a character that belongs to an operand: no operator, parenthesis or blank
IsOperandChar(c) == c \notin {"+", "-", "*", "/", "^", "(", ")", " ", "\t"}

IsOperandText(w) == w # <<>> /\ \A k \in 1..Len(w) : IsOperandChar(w[k])

\* the last position of the run of operand characters that starts at from
\* (from - 1 when there is none)
OperandEnd(s, from) ==
    CHOOSE k \in (from - 1)..Len(s) :
        /\ \A j \in from..k : IsOperandChar(s[j])
        /\ (k = Len(s) \/ ~IsOperandChar(s[k + 1]))

\* s[minus] is '-', an operand follows it and a binary operator (one of
\* operators) follows that
MinusOperandOperator(s, minus, operators) ==
    /\ minus + 2 <= Len(s)
    /\ s[minus] = "-"
    /\ OperandEnd(s, minus + 1) >= minus + 1
    /\ OperandEnd(s, minus + 1) < Len(s)
    /\ s[OperandEnd(s, minus + 1) + 1] \in operators

\* the operand token "(" + "-" + operand + ")" for the '-' at s[minus]
WrappedOperand(s, minus) ==
    Variable(<<"(", "-">> \o SubSeq(s, minus + 1, OperandEnd(s, minus + 1)) \o <<")">>)

FollowingOperator(s, minus) == Operator(s[OperandEnd(s, minus + 1) + 1])

\* the characters each tokenizer takes for a binary operator
ComsolOperators == {"+", "-", "*", "/", "^"}
SpiceOperators == {"+", "-", "*", "/"}

Without(s, k) == SubSeq(s, 1, k - 1) \o SubSeq(s, k + 1, Len(s))

\* C7: in comsol_parser.tokenization, a '-' that is the first character, followed
\* by an operand and a binary operator, gives the first token ( - operand ) as
\* one Operand, then the operator token, then the remaining tokens (those the
\* expression has without the '-'); the same holds for a '-' right after '('.
C7_ComsolUnaryMinus ==
    (pc = "tokenized" /\ dialect = "comsol") =>
        /\ MinusOperandOperator(expr, 1, ComsolOperators) =>
              /\ Len(tokens) >= 2
              /\ tokens[1] = WrappedOperand(expr, 1)
              /\ tokens[2] = FollowingOperator(expr, 1)
              /\ Tail(tokens) = Tail(comsol_tokenization(Tail(expr)).tokens)
        /\ \A p \in 1..Len(expr) :
              (expr[p] = "(" /\ MinusOperandOperator(expr, p + 1, ComsolOperators)) =>
                  LET plain == comsol_tokenization(Without(expr, p + 1)).tokens IN
                  /\ Len(tokens) = Len(plain)
                  /\ \E j \in 1..(Len(tokens) - 2) :
                        /\ tokens[j] = Paranthesis("(")
                        /\ tokens[j + 1] = WrappedOperand(expr, p + 1)
                        /\ tokens[j + 2] = FollowingOperator(expr, p + 1)
                        /\ \A k \in 1..Len(tokens) : k # j + 1 => tokens[k] = plain[k]

C7_Witness ==
    /\ pc = "tokenized"
    /\ dialect = "comsol"
    /\ expr = <<"(", "-", "x", "+", "x">>
    /\ tokens = <<Paranthesis("("), Variable(<<"(", "-", "x", ")">>), Operator("+"),
                  Variable(<<"x">>)>>

\* C8: in parse_spice.tokenization, the operand that follows a '-' in first
\* position keeps every one of its characters: - operand operator ... starts
\* with the token ( - operand ).
C8_SpiceUnaryMinus ==
    (pc = "tokenized" /\ dialect = "spice"
        /\ MinusOperandOperator(expr, 1, SpiceOperators)) =>
        /\ Len(tokens) >= 2
        /\ tokens[1] = WrappedOperand(expr, 1)
        /\ tokens[2] = FollowingOperator(expr, 1)

\* C9: in both tokenizers every Operand token whose accumulated text begins with
\* '-' is emitted wrapped in parentheses, so no Operand token begins with '-'.
C9_NegativeOperandsWrapped ==
    (pc = "tokenized") =>
        \A k \in 1..Len(tokens) :
            is_variable(tokens[k]) => tokens[k].var[1] # "-"

\* C10: in the tokenizer of either dialect, operand ** operand and
\* operand ^ operand both tokenize to operand, Operator('^'), operand.
C10_PowerOperatorCanonical ==
    (pc = "tokenized") =>
        \A k \in 1..Len(expr) :
            LET u == SubSeq(expr, 1, k - 1)
                caret == SubSeq(expr, k + 1, Len(expr))
                stars == SubSeq(expr, k + 2, Len(expr))
            IN  /\ (expr[k] = "^" /\ IsOperandText(u) /\ IsOperandText(caret))
                      => tokens = <<Variable(u), Operator("^"), Variable(caret)>>
                /\ (expr[k] = "*" /\ k < Len(expr) /\ expr[k + 1] = "*"
                        /\ IsOperandText(u) /\ IsOperandText(stars))
                      => tokens = <<Variable(u), Operator("^"), Variable(stars)>>

-----------------------------------------------------------------------------
(* Properties of the conversion.                                            *)

\* the SPICE text of the AST of a SPICE expression: tokenization, tree,
\* in-order rendering, '^' written '**'
SpiceRendering(s) ==
    re_sub(CARET_PAT, <<"*", "*">>, RenderedText(TreeOf(spice_tokenization(s))).text)

\* s is already in rendered form: it is the rendering of its own AST
InRenderedForm(s) == s # <<>> /\ SpiceRendering(s) = s

\* C5: for every SPICE expression s in rendered form, spice_to_comsol(s)
\* followed by parse_comsol and generate_spice returns s again.
C5_ConversionRoundTrips ==
    InRenderedForm(expr) =>
        /\ pc # "failed"
        /\ pc = "spice_generated" => spice_expr = expr

-----------------------------------------------------------------------------
(* Properties of the evaluation.                                            *)

\* both objects have answered the method at the caller's temperature
BothAnswered(method) ==
    /\ results.spice[method] # None
    /\ results.comsol[method] # None

SameValue(method) ==
    /\ results.spice[method].err = "none"
    /\ results.comsol[method].err = "none"
    /\ results.spice[method].value = results.comsol[method].value

\* C6: for a matched SPICE/COMSOL pair, aeval(temp) on the SPICE object and
\* aeval(temp + 273.15) on the COMSOL object return the same value, and
\* likewise keval.
C6_CrossDialectEquivalence ==
    \A method \in {"aeval", "keval"} : BothAnswered(method) => SameValue(method)

-----------------------------------------------------------------------------
(* The lexemes of an expression as the tokenizer's contract describes them: *)
(* a decimal literal is digits, possibly '.' and digits, possibly an        *)
(* exponent (e, an optional sign, digits); a name is identifier-style; any  *)
(* other character is an operator or a parenthesis.                         *)

\* the position after the decimal literal that starts at position i of s
LiteralEnd(s, i) ==
    LET b == SkipDigits(s, i)
        c == IF b < Len(s) /\ At(s, b) = "." THEN SkipDigits(s, b + 1) ELSE b
        x == IF c < Len(s) /\ At(s, c) \in {"e", "E"}
             THEN IF c + 1 < Len(s) /\ At(s, c + 1) \in {"+", "-"} THEN c + 2 ELSE c + 1
             ELSE c
        y == SkipDigits(s, x)
    IN  IF x > c /\ y > x THEN y ELSE c

RECURSIVE Lexemes(_, _)
Lexemes(s, i) ==
    IF i >= Len(s) THEN <<>>
    ELSE LET c == At(s, i)
             end == IF c \in Digits THEN LiteralEnd(s, i)
                    ELSE IF c \in NameStart THEN SkipChars(s, i, NameChar)
                    ELSE i + 1
         IN  IF ord(c) <= 32 THEN Lexemes(s, i + 1)
             ELSE <<SubSeq(s, i + 1, end)>> \o Lexemes(s, end)

IsOperandLexeme(lexeme) == IsLiteral(lexeme) \/ IsName(lexeme)

\* the operands of the expression, in order
OperandLexemes(s) == SelectSeq(Lexemes(s, 0), IsOperandLexeme)

\* the texts of the Operand tokens, in order
OperandTexts(toks) ==
    LET operands == SelectSeq(toks, is_variable)
    IN  [k \in 1..Len(operands) |-> operands[k].var]

\* C11: a decimal literal of the expression, one with a signed exponent such as
\* 1.65e-6 included, is exactly one Operand token whose text is the whole
\* literal: the Operand tokens are, in order, the operands of the expression.
C11_LiteralIsOneOperand ==
    (pc = "tokenized") =>
        /\ Len(OperandTexts(tokens)) = Len(OperandLexemes(expr))
        /\ \A k \in 1..Len(OperandLexemes(expr)) :
              IsLiteral(OperandLexemes(expr)[k]) =>
                  OperandTexts(tokens)[k] = OperandLexemes(expr)[k]

-----------------------------------------------------------------------------
(* Blanks between the lexemes of a well-formed expression.                  *)

IsBlank(c) == ord(c) <= 32
NotBlank(c) == ~IsBlank(c)

\* the expression without its blanks
Trimmed(s) == SelectSeq(s, NotBlank)

\* t[k] is a unary minus: a '-' in first position or right after '(', with an
\* operand after it
IsUnaryMinus(t, k) ==
    /\ t[k] = "-"
    /\ k = 1 \/ t[k - 1] = "("
    /\ k < Len(t)
    /\ IsOperandChar(t[k + 1])

\* t without its unary minus signs
Unsigned(t) ==
    LET kept == {k \in 1..Len(t) : ~IsUnaryMinus(t, k)}
        nth(n) == CHOOSE k \in kept : Cardinality({j \in kept : j < k}) = n - 1
    IN  [n \in 1..Cardinality(kept) |-> t[nth(n)]]

\* the lexemes form an expression E ::= operand | ( E ) | E operator E
RECURSIVE IsExpression(_)
IsExpression(lx) ==
    LET outer == {k \in 2..(Len(lx) - 1) :
                    lx[k][1] \in ComsolOperators /\ Depth(lx, k) = 0}
    IN  IF lx = <<>> THEN FALSE
        ELSE IF Len(lx) = 1 THEN IsOperandLexeme(lx[1])
        ELSE IF outer # {}
        THEN LET k == CHOOSE j \in outer : TRUE
             IN  /\ IsExpression(SubSeq(lx, 1, k - 1))
                 /\ IsExpression(SubSeq(lx, k + 1, Len(lx)))
        ELSE /\ lx[1] = <<"(">>
             /\ lx[Len(lx)] = <<")">>
             /\ IsExpression(SubSeq(lx, 2, Len(lx) - 1))

\* a trimmed well-formed expression, operands possibly signed
IsWellFormedText(t) == IsExpression(Lexemes(Unsigned(t), 0))

\* the first position after k that holds no blank (Len(s) + 1 if none)
NextNonBlank(s, k) ==
    CHOOSE j \in (k + 1)..(Len(s) + 1) :
        /\ j = Len(s) + 1 \/ NotBlank(s[j])
        /\ \A i \in (k + 1)..(j - 1) : IsBlank(s[i])

\* the last position before k that holds no blank (0 if none)
PreviousNonBlank(s, k) ==
    CHOOSE j \in 0..(k - 1) :
        /\ j = 0 \/ NotBlank(s[j])
        /\ \A i \in (j + 1)..(k - 1) : IsBlank(s[i])

\* every blank of s stands between two lexemes: none leads or trails, none
\* stands inside an operand, none between a unary minus and its operand
BlanksBetweenLexemes(s) ==
    \A k \in 1..Len(s) :
        IsBlank(s[k]) =>
            LET before == PreviousNonBlank(s, k)
                after == NextNonBlank(s, k)
            IN  /\ before >= 1
                /\ after <= Len(s)
                /\ ~(IsOperandChar(s[before]) /\ IsOperandChar(s[after]))
                /\ ~(/\ s[before] = "-"
                     /\ IsOperandChar(s[after])
                     /\ \/ PreviousNonBlank(s, before) = 0
                        \/ s[PreviousNonBlank(s, before)] = "(")

\* tokenization of the caller's module
Tokenization(module, s) ==
    IF module = "comsol" THEN comsol_tokenization(s)
    ELSE [tokens |-> spice_tokenization(s).tokens, err |-> spice_tokenization(s).err]

\* C12: characters with code point <= 0x20 never produce tokens: a well-formed
\* expression with blanks between its lexemes tokenizes to the token sequence
\* of the expression without the blanks.
C12_BlanksLeaveTokensUnchanged ==
    (/\ pc # "start"
     /\ BlanksBetweenLexemes(expr)
     /\ IsWellFormedText(Trimmed(expr))) =>
        /\ pc = "tokenized"
        /\ tokens = Tokenization(dialect, Trimmed(expr)).tokens

-----------------------------------------------------------------------------
(* Properties of the variable list.                                         *)

\* the distinct operand names of the expression: its operands that are no
\* numeric literal
OperandNames(s) ==
    {OperandLexemes(s)[k] : k \in {j \in 1..Len(OperandLexemes(s)) :
                                      IsName(OperandLexemes(s)[j])}}

\* C13: after spice_to_comsol(s, var_list) the list holds every distinct
\* operand name of s that is no numeric literal, wherever the operand stands
\* (first, middle or last), and nothing else.
C13_VariableListHoldsNames ==
    (pc = "converted") => var_list = OperandNames(expr)

-----------------------------------------------------------------------------
(* Properties of the declared origin.                                       *)

\* C14: on every ExprParser built as COMSOL-origin, in any spelling of the
\* dialect the constructor accepts, parse_spice() raises ValueError, and on
\* every SPICE-origin object parse_comsol() raises ValueError.
C14_OtherDialectParseFails ==
    /\ results.comsol.parse_spice # None
          => results.comsol.parse_spice.err = "ValueError"
    /\ results.spice.parse_comsol # None
          => results.spice.parse_comsol.err = "ValueError"

\* the dialect values the constructor takes for one of the two dialects
IsDialect(lang) == lang # NoLanguage /\ casefold(lang) \in {"spice", "comsol"}

\* C15: a constructor call that names no dialect of {spice, comsol}, compared
\* case-insensitively, or names none at all, raises ValueError and builds no
\* object: nothing is parsed and no evaluator is created.
C15_UnknownDialectIsValueError ==
    \A which \in {"spice", "comsol"} :
        (results[which].init # None /\ ~IsDialect(results[which].init.initial_lang)) =>
            /\ results[which].init.err = "ValueError"
            /\ parsers[which] = None

-----------------------------------------------------------------------------
(* Properties of the parser on malformed input.                             *)

\* the number of '(' minus the number of ')' among the first k characters
ParenthesisDepth(s, k) ==
    Cardinality({j \in 1..k : s[j] = "("}) - Cardinality({j \in 1..k : s[j] = ")"})

\* a ')' that nothing opened
HasUnopened(s) == \E k \in 1..Len(s) : ParenthesisDepth(s, k) < 0

\* a '(' that nothing closes
HasUnclosed(s) == ParenthesisDepth(s, Len(s)) > 0

MismatchedParentheses(s) == HasUnopened(s) \/ HasUnclosed(s)

\* C16: for every token sequence with mismatched parentheses, a '(' never
\* closed or a ')' never opened, infix_to_prefix raises IndexError and returns
\* no prefix sequence.
C16_MismatchedParenthesesFail ==
    (pc \in {"prefixed", "built"}) => ~MismatchedParentheses(expr)

\* empty text, a trailing binary operator, or two binary operators in a row
ListedMalformed(s) ==
    \/ Trimmed(s) = <<>>
    \/ s # <<>> /\ s[Len(s)] \in ComsolOperators
    \/ \E k \in 1..(Len(s) - 1) :
          s[k] \in ComsolOperators /\ s[k + 1] \in ComsolOperators

\* the tree has a root that is an operand or an operator, and every operator
\* node has its two children
RECURSIVE IsComplete(_)
IsComplete(node) ==
    /\ node # None
    /\ \/ is_variable(node.token)
       \/ /\ is_operator(node.token)
          /\ IsComplete(FirstChild(node))
          /\ IsComplete(SecondChild(node))

\* C17: parsing a malformed expression (empty text, a trailing binary
\* operator, two binary operators in a row) raises an error: AST(tokens) never
\* returns a tree for it, and never a tree in which an operator node lacks a
\* child or whose root is no operand and no operator; AST.getAST returns None
\* at top level only for an empty sequence.
C17_MalformedInputFails ==
    /\ (pc = "constructed" /\ ~MismatchedParentheses(expr)) =>
          /\ ~ListedMalformed(expr)
          /\ IsComplete(ast)
    /\ (pc = "built" /\ ast = None) =>
          \A k \in 1..Len(tokens) : is_paranthesis(tokens[k])

-----------------------------------------------------------------------------
(* Properties of the generated text.                                        *)

\* the text generate_spice is to write for a leaf
SpiceLeaf(text) ==
    IF text = T_ABS THEN SPICE_KELVIN ELSE IF text = T THEN temp ELSE text

\* the in-order text of the tree by the parenthesis rule, the leaves rewritten
\* and every exponent operator written '**'
RECURSIVE SpiceRuleText(_)
SpiceRuleText(node) ==
    IF ~IsInterior(node) THEN SpiceLeaf(node.token.var)
    ELSE LET side(child) == IF Parenthesized(node, child)
                            THEN <<"(">> \o SpiceRuleText(child) \o <<")">>
                            ELSE SpiceRuleText(child)
         IN  side(FirstChild(node))
             \o (IF IsPower(node) THEN <<"*", "*">> ELSE <<node.token.op>>)
             \o side(SecondChild(node))

\* the text occurs in s
Occurs(text, s) ==
    \E k \in 0..(Len(s) - Len(text)) : SubSeq(s, k + 1, k + Len(text)) = text

\* the call spice_expr = generate_spice(ast) returns
GenerateSpiceReturns == pc = "parsed" /\ pc' = "spice_generated"

\* C18: generate_spice(ast) returns the in-order rendering of the tree with
\* every leaf T_ABS written (temp+273.15), every leaf T written temp, every
\* other leaf as it was and every exponent operator written '**'; no '^'
\* remains in the string.
C18_GenerateSpiceText ==
    [][GenerateSpiceReturns =>
          /\ spice_expr' = SpiceRuleText(ast)
          /\ ~Occurs(<<"^">>, spice_expr')]_vars

C18_Witness ==
    /\ pc = "spice_generated"
    /\ comsol_expr = COMSOL_KELVIN \o <<"^", "2">>
    /\ ast = Pow([token |-> Variable(SPICE_KELVIN)], Leaf("2"))
    /\ spice_expr = SPICE_KELVIN \o <<"*", "*", "2">>

\* the text spice_to_comsol is to write for a leaf
ComsolLeaf(text) ==
    IF text = tempa THEN COMSOL_KELVIN
    ELSE IF text = temp THEN COMSOL_CELSIUS
    ELSE text

\* the in-order text of the tree by the parenthesis rule, the leaves rewritten
\* and every exponent operator written '^'
RECURSIVE ComsolRuleText(_)
ComsolRuleText(node) ==
    IF ~IsInterior(node) THEN ComsolLeaf(node.token.var)
    ELSE LET side(child) == IF Parenthesized(node, child)
                            THEN <<"(">> \o ComsolRuleText(child) \o <<")">>
                            ELSE ComsolRuleText(child)
         IN  side(FirstChild(node)) \o <<node.token.op>> \o side(SecondChild(node))

\* the AST spice_to_comsol builds from the SPICE expression
SpiceTree(s) == TreeOf(spice_tokenization(re_sub(SPICE_ABS_TEMP_PAT, tempa, s))).ast

\* '81.5-0.155*((T-0[degC])/1[K])+0.133e-3*((T-0[degC])/1[K])^2'
COMSOL_EXAMPLE ==
    <<"8", "1", ".", "5", "-", "0", ".", "1", "5", "5", "*", "(", "(", "T",
      "-", "0", "[", "d", "e", "g", "C", "]", ")", "/", "1", "[", "K", "]",
      ")", "+", "0", ".", "1", "3", "3", "e", "-", "3", "*", "(", "(", "T",
      "-", "0", "[", "d", "e", "g", "C", "]", ")", "/", "1", "[", "K", "]",
      ")", "^", "2">>

\* C19: the COMSOL text spice_to_comsol returns renders every leaf temp as
\* ((T-0[degC])/1[K]) and every exponent operator as '^', never as '**'; for
\* 81.5-0.155*temp+0.133e-3*temp**2 it is
\* 81.5-0.155*((T-0[degC])/1[K])+0.133e-3*((T-0[degC])/1[K])^2.
C19_SpiceToComsolText ==
    (pc = "converted") =>
        /\ comsol_expr = ComsolRuleText(SpiceTree(expr))
        /\ ~Occurs(<<"*", "*">>, comsol_expr)
        /\ expr = SPICE_EXAMPLE => comsol_expr = COMSOL_EXAMPLE

C19_Witness ==
    /\ pc = "converted"
    /\ expr = SPICE_EXAMPLE
    /\ comsol_expr = COMSOL_EXAMPLE

\* C20: generate_spice(ast) leaves the AST as it was: str(ast) is the same text
\* before and after the call.
C20_GenerateSpiceKeepsAST ==
    [][GenerateSpiceReturns =>
          /\ ast' = ast
          /\ Join(inorderAST(ast').list) = Join(inorderAST(ast).list)]_vars

-----------------------------------------------------------------------------
\* the text of a tree: ''.join(str(t) for t in ast.inorderAST())
TreeText(node) == Join(inorderAST(node).list)

\* C21: parsing the same expression string twice yields two ASTs with the same
\* rendering; inorderAST() called twice on the same AST yields the same token
\* texts; ExprParser.generate_spice() called any number of times in a row on
\* the same COMSOL-origin object returns the same string every time.
C21_RepeatedCallsAgree ==
    /\ \A i, j \in DOMAIN results.parse_comsol :
          /\ results.parse_comsol[i].err = "none"
          /\ TreeText(results.parse_comsol[i].ast) = TreeText(results.parse_comsol[j].ast)
    /\ \A i, j \in DOMAIN results.inorderAST :
          /\ results.inorderAST[i].err = "none"
          /\ Join(results.inorderAST[i].list) = Join(results.inorderAST[j].list)
    /\ \A i, j \in DOMAIN results.generate_spice :
          /\ results.generate_spice[i].err = "none"
          /\ results.generate_spice[i].value = results.generate_spice[j].value

\* (T/1[K])^((T-0[degC])/1[K]) parsed twice, rendered twice, and written as
\* SPICE MaxCalls times in a row
C21_Witness ==
    /\ expr = COMSOL_KELVIN \o <<"^">> \o COMSOL_CELSIUS
    /\ Len(results.parse_comsol) >= 2
    /\ Len(results.inorderAST) >= 2
    /\ Len(results.generate_spice) = MaxCalls
    /\ results.generate_spice[MaxCalls].value = SPICE_KELVIN \o <<"*", "*">> \o temp

-----------------------------------------------------------------------------
\* the last call gave the wrong number of values, or a keyword set that lacks
\* one of the variable names
Mismatched ==
    \/ results.method = "aeval" /\ results.given # Len(Factors)
    \/ /\ results.method = "keval"
       /\ \/ Cardinality(results.given) # Len(Factors)
          \/ \E k \in 1..Len(Factors) : Factors[k] \notin results.given

\* C22: when aeval or keval is called with the wrong number of values, or keval
\* with a keyword set that lacks one of the variable names, the call raises an
\* arity error (ValueError) or a name error (NameError), returns no value, and
\* leaves every binding of the interpreter's symbol table as it was before
\* the call.
C22_MismatchLeavesBindings ==
    Mismatched =>
        /\ results.err \in {"ValueError", "NameError"}
        /\ results.value = None
        /\ parsers.spice.evaluator.symtable = results.symtable

\* C22 without the symbol table: a mismatched call raises ValueError or NameError
\* and returns no value
C22_MismatchRaises ==
    Mismatched =>
        /\ results.err \in {"ValueError", "NameError"}
        /\ results.value = None

\* C22 for a wrong number of values or keywords: the symbol table is untouched
C22_WrongCountLeavesBindings ==
    (/\ Mismatched
     /\ results.method = "keval" => Cardinality(results.given) # Len(Factors))
        => parsers.spice.evaluator.symtable = results.symtable

-----------------------------------------------------------------------------
(* What a tree is made of, read field by field: its shape (the nodes, their *)
(* operators and which field holds which child, leaf texts left out) and    *)
(* the texts of its leaves from left to right.                              *)

RECURSIVE Shape(_)
Shape(node) ==
    IF node = None THEN None
    ELSE IF is_variable(node.token) THEN [leaf |-> TRUE]
    ELSE IF node.token.op = "^"
         THEN [op |-> "^", base |-> Shape(node.base), power |-> Shape(node.power)]
         ELSE [op |-> node.token.op, left |-> Shape(node.left), right |-> Shape(node.right)]

RECURSIVE LeafTexts(_)
LeafTexts(node) ==
    IF node = None THEN <<>>
    ELSE IF is_variable(node.token) THEN <<node.token.var>>
    ELSE IF node.token.op = "^" THEN LeafTexts(node.base) \o LeafTexts(node.power)
    ELSE LeafTexts(node.left) \o LeafTexts(node.right)

\* the leaf texts replace_token(match, replace) is to leave
Substituted(texts, match, replace) ==
    [k \in 1..Len(texts) |-> IF texts[k] = match THEN replace ELSE texts[k]]

\* C23: replace_token(match, replace) changes only leaf content: after the call
\* every leaf whose text equalled match has text replace and every other leaf
\* keeps its text; the tree has the same nodes, the same operators and the
\* same children in the same fields (a call that raises on a field left None
\* changes no shape either, and no leaf but matching ones); the same call
\* applied a second time changes nothing further.
C23_ReplaceTokenOnlyLeaves ==
    (pc = "replaced") =>
        /\ Shape(ast) = Shape(results.ast)
        /\ results.err = "none" =>
              LeafTexts(ast) = Substituted(LeafTexts(results.ast), results.match,
                                           results.replace)
        /\ \A k \in 1..Len(LeafTexts(ast)) :
              \/ LeafTexts(ast)[k] = LeafTexts(results.ast)[k]
              \/ /\ LeafTexts(results.ast)[k] = results.match
                 /\ LeafTexts(ast)[k] = results.replace
        /\ results.err = "none" =>
              replace_token(ast, results.match, results.replace).ast = ast

\* replace_token('a', 'c') on the tree of a^b+a, which had the leaves a, b, a
C23_Witness ==
    /\ pc = "replaced"
    /\ expr = <<"a", "^", "b", "+", "a">>
    /\ results.match = <<"a">>
    /\ results.replace = <<"c">>
    /\ results.ast = Bin("+", Pow(Leaf("a"), Leaf("b")), Leaf("a"))
    /\ ast = Bin("+", Pow(Leaf("c"), Leaf("b")), Leaf("c"))

-----------------------------------------------------------------------------
\* the number of nodes of a tree
RECURSIVE NodeCount(_)
NodeCount(node) ==
    IF node = None THEN 0
    ELSE IF is_variable(node.token) THEN 1
    ELSE IF node.token.op = "^" THEN 1 + NodeCount(node.base) + NodeCount(node.power)
    ELSE 1 + NodeCount(node.left) + NodeCount(node.right)

\* the pre-order traversal: the node, then base and power, or left and right
RECURSIVE PreOrder(_)
PreOrder(node) ==
    IF node = None THEN <<>>
    ELSE IF is_variable(node.token) THEN <<node.token>>
    ELSE IF node.token.op = "^"
         THEN <<node.token>> \o PreOrder(node.base) \o PreOrder(node.power)
         ELSE <<node.token>> \o PreOrder(node.left) \o PreOrder(node.right)

\* the call ast = AST.getAST(prefix)
GetASTReturns == pc = "prefixed" /\ pc' = "built"

\* C24: for every well-formed prefix token sequence, AST.getAST consumes the
\* whole sequence (the list is empty afterwards), builds one node per token,
\* builds base before exponent for '^' and left before right otherwise, and
\* the pre-order traversal of the tree returned equals the sequence given.
C24_GetASTConsumesPrefix ==
    [][GetASTReturns =>
          /\ prefix' = <<>>
          /\ NodeCount(ast') = Len(prefix)
          /\ PreOrder(ast') = prefix]_vars

\* getAST on ^ - a b * b a: the difference is the base, the product the exponent
C24_Witness ==
    /\ pc = "built"
    /\ prefix = <<>>
    /\ expr = <<>>
    /\ ast = Pow(Bin("-", Leaf("a"), Leaf("b")), Bin("*", Leaf("b"), Leaf("a")))

-----------------------------------------------------------------------------
\* the step of infix_to_postfix on an operator token
OperatorStep ==
    /\ pc = "postfix"
    /\ postfix_i < Len(postfix_tokens)
    /\ is_operator(At(postfix_tokens, postfix_i))
    /\ postfix_i' = postfix_i + 1

\* the operator the step takes from token_list
Incoming == At(postfix_tokens, postfix_i)

\* the number of stack entries the step moved to the output
PoppedCount == Len(postfix_output') - Len(postfix_output)

\* the step popped the PoppedCount entries on top of the stack to the output,
\* top first, and pushed the incoming operator on what was left
PopsThenPushes ==
    /\ PoppedCount \in 0..Len(postfix_stack)
    /\ postfix_output' =
         postfix_output
           \o [k \in 1..PoppedCount |-> postfix_stack[Len(postfix_stack) + 1 - k]]
    /\ postfix_stack' =
         Append(SubSeq(postfix_stack, 1, Len(postfix_stack) - PoppedCount), Incoming)

\* the entries popped are exactly the run on top of the stack of the entries
\* that qualify
PopsExactly(Qualifies(_)) ==
    /\ \A k \in (Len(postfix_stack) - PoppedCount + 1)..Len(postfix_stack) :
          Qualifies(postfix_stack[k])
    /\ PoppedCount < Len(postfix_stack)
          => ~Qualifies(postfix_stack[Len(postfix_stack) - PoppedCount])

\* as the statement has it: an operator of equal or lower precedence under an
\* incoming '^', of strictly lower precedence under + - * /
EqualOrLower(entry) ==
    /\ is_operator(entry)
    /\ IF Incoming.op = "^"
       THEN precedence(entry) <= precedence(Incoming)
       ELSE precedence(entry) < precedence(Incoming)

\* as the code has it: an operator of equal or higher precedence under an
\* incoming '^', of strictly higher precedence under + - * /
EqualOrHigher(entry) ==
    /\ is_operator(entry)
    /\ IF Incoming.op = "^"
       THEN precedence(entry) >= precedence(Incoming)
       ELSE precedence(entry) > precedence(Incoming)

\* C25 as stated: in infix_to_postfix, when the incoming operator is '^' the
\* operators on the stack of equal or lower precedence are popped to the output
\* before '^' is pushed, and when the incoming operator is one of + - * / only
\* the stack operators of strictly lower precedence are popped before it is
\* pushed.
C25_PopsLowerPrecedence ==
    [][OperatorStep => PopsThenPushes /\ PopsExactly(EqualOrLower)]_vars

\* C25, amended: when the incoming operator is '^' the operators on top of the
\* stack of equal or higher precedence (another '^') are popped to the output
\* before it is pushed, and when the incoming operator is one of + - * / only
\* the operators on top of the stack of strictly higher precedence are popped;
\* popping stops at the first entry that is a parenthesis or an operator that
\* does not qualify.
C25_PopsHigherPrecedence ==
    [][OperatorStep => PopsThenPushes /\ PopsExactly(EqualOrHigher)]_vars

\* the tokens of a^b^a reach the reduction reversed; the second '^' has popped
\* the first one
C25_Witness ==
    /\ pc = "postfix"
    /\ expr = <<"a", "^", "b", "^", "a">>
    /\ postfix_i = 5
    /\ postfix_output = <<Variable(<<"a">>), Variable(<<"b">>), Operator("^")>>
    /\ postfix_stack = <<Paranthesis("("), Operator("^")>>

\* the reduction taken token by token returns what infix_to_prefix returns
PostfixStepsAgree ==
    (pc = "prefixed") => prefix = infix_to_prefix(InfixTokens).prefix

-----------------------------------------------------------------------------
\* the texts of the tokens of a list
TokenTexts(list) == [k \in 1..Len(list) |-> str(list[k])]

\* C26: tokens are immutable: AST(list_of_tokens) leaves every token of the
\* caller's list with the text it had before, so building an AST a second
\* time from the same token list gives a tree equal to the first.
C26_TokensKeepTheirText ==
    /\ (pc \in {"constructed", "rebuilt", "rebuild_failed"})
          => TokenTexts(tokens) = TokenTexts(InfixTokens)
    /\ pc # "rebuild_failed"
    /\ (pc = "rebuilt") => ast = ast0

\* C26 for a token list without parentheses: the texts are kept and the second
\* tree equals the first
C26_WithoutParentheses ==
    (\A k \in 1..Len(InfixTokens) : ~is_paranthesis(InfixTokens[k]))
        => C26_TokensKeepTheirText

-----------------------------------------------------------------------------
\* the Operand and Operator tokens of a list
NotParanthesis(token) == ~is_paranthesis(token)
OperandsAndOperators(list) == SelectSeq(list, NotParanthesis)

\* each token of one list appears in the other as many times
Occurrences(token, list) == Cardinality({k \in 1..Len(list) : list[k] = token})
SameTokens(list, other) ==
    \A k \in 1..Len(list) : Occurrences(list[k], list) = Occurrences(list[k], other)
EachOnce(list, other) == SameTokens(list, other) /\ SameTokens(other, list)

\* C27: no token is lost: for every expression built from operands, binary
\* operators, balanced parentheses and a unary minus at the start or directly
\* after '(' (in front of an operand or of a parenthesized group), every
\* Operand and Operator token the tokenizer produced appears exactly once in
\* the AST, and so in the rendered text.
C27_NoTokenLost ==
    /\ (pc = "built") => EachOnce(OperandsAndOperators(InfixTokens), PreOrder(ast))
    /\ (pc = "rendered")
          => EachOnce(OperandsAndOperators(InfixTokens), OperandsAndOperators(rendered))

\* every unary minus of the expression stands in front of an operand
MinusBeforeOperand ==
    \A k \in 1..Len(expr) :
        (expr[k] = "-" /\ (k = 1 \/ expr[k - 1] = "("))
            => (k < Len(expr) /\ IsOperandChar(expr[k + 1]))

\* C27 without a minus in front of a parenthesized group
C27_NoTokenLostBeforeOperand == MinusBeforeOperand => C27_NoTokenLost

-----------------------------------------------------------------------------
\* C28: no placeholder leaks into generated text: for every well-formed COMSOL
\* expression, including one where a temperature idiom is preceded by a unary
\* minus, the string generate_spice(parse_comsol(expr)) returns contains no
\* occurrence of T_ABS; and for every well-formed SPICE expression the string
\* spice_to_comsol returns contains no occurrence of tempa.
C28_NoPlaceholderLeaks ==
    /\ (dialect = "comsol" /\ pc = "spice_generated") => ~Occurs(T_ABS, spice_expr)
    /\ (dialect = "spice" /\ pc = "converted") => ~Occurs(tempa, comsol_expr)

\* the expression the caller started from
GivenText == IF dialect = "spice" THEN expr ELSE comsol_expr

\* the expression carries a unary minus
HasUnaryMinus(s) ==
    \E k \in 1..Len(s) : s[k] = "-" /\ (k = 1 \/ s[k - 1] = "(")

\* C28 for the expressions without a unary minus
C28_NoLeakWithoutMinus == ~HasUnaryMinus(GivenText) => C28_NoPlaceholderLeaks

====
